---- MODULE Spec2Model ----
(***************************************************************************)
(* G-code viewer: the parser GCodeParser (reset, parse, parseComments,     *)
(* parseLine, tokenize, processLinearMove, processArc, calculateCycleTime, *)
(* trimParkMoves, updateBounds) as a state machine.                        *)
(*                                                                         *)
(* Numbers.  A JavaScript number is modelled in fixed point: the integer n *)
(* stands for n / Scale.  NaN, +Infinity and -Infinity are three reserved  *)
(* integers outside the range the bounded inputs reach, and every          *)
(* arithmetic operator below gives them their IEEE-754 behaviour.          *)
(* Angles are whole multiples of pi / HalfTurn; cosines are tabulated at   *)
(* that resolution, scaled by TrigScale.                                   *)
(*                                                                         *)
(* Text.  A line is a sequence of one-character strings; a program text is *)
(* the sequence of lines that gcodeText.split('\n') yields.                *)
(***************************************************************************)
EXTENDS Integers, Sequences, FiniteSets, TLC

\* ------------------------------------------------------------------ numbers

Scale == 10 ^ 3

NaN == 2 * (10 ^ 9)

Infinity == 10 ^ 9

\* null and undefined, where a field holds a number or nothing
Null == NaN + 1

Undefined == NaN + 2

Num(n) == n * Scale

\* Let([x \in {e} |-> body]) is body with x standing for the value of e
Let(f) == f[CHOOSE v \in DOMAIN f : TRUE]

IsNaN(a) == a = NaN

IsFinite(a) == a \notin {NaN, Infinity, -Infinity, Null, Undefined}

Abs(a) == IF a < 0 THEN -a ELSE a

\* a === b on numbers
jsEq(a, b) == a # NaN /\ b # NaN /\ a = b

jsLt(a, b) == a # NaN /\ b # NaN /\ a < b

jsGt(a, b) == jsLt(b, a)

jsLe(a, b) == a # NaN /\ b # NaN /\ a <= b

jsGe(a, b) == jsLe(b, a)

jsNeg(a) == IF a = NaN THEN NaN ELSE -a

jsAdd(a, b) ==
  IF a = NaN \/ b = NaN THEN NaN
  ELSE IF a = Infinity THEN (IF b = -Infinity THEN NaN ELSE Infinity)
  ELSE IF a = -Infinity THEN (IF b = Infinity THEN NaN ELSE -Infinity)
  ELSE IF b = Infinity \/ b = -Infinity THEN b
  ELSE a + b

jsSub(a, b) == jsAdd(a, jsNeg(b))

\* integer quotient rounded to nearest, halves away from zero
RoundDiv(n, d) ==
  IF n >= 0 THEN (2 * n + d) \div (2 * d) ELSE -((2 * (-n) + d) \div (2 * d))

Sign(a) == IF a > 0 THEN 1 ELSE IF a < 0 THEN -1 ELSE 0

\* a * b, both fixed point with scale Scale, and a * b with b scaled by s
jsMulBy(a, b, s) ==
  IF a = NaN \/ b = NaN THEN NaN
  ELSE IF ~IsFinite(a) \/ ~IsFinite(b)
       THEN (IF a = 0 \/ b = 0 THEN NaN
             ELSE IF Sign(a) * Sign(b) > 0 THEN Infinity ELSE -Infinity)
  ELSE RoundDiv(a * b, s)

jsMul(a, b) == jsMulBy(a, b, Scale)

\* a / b
jsDiv(a, b) ==
  IF a = NaN \/ b = NaN THEN NaN
  ELSE IF ~IsFinite(a)
       THEN (IF ~IsFinite(b) THEN NaN
             ELSE IF Sign(a) * (IF b < 0 THEN -1 ELSE 1) > 0 THEN Infinity ELSE -Infinity)
  ELSE IF ~IsFinite(b) THEN 0
  ELSE IF b = 0 THEN (IF a = 0 THEN NaN ELSE IF a > 0 THEN Infinity ELSE -Infinity)
  ELSE RoundDiv(a * Scale * Sign(b), Abs(b))

MathMin(a, b) == IF a = NaN \/ b = NaN THEN NaN ELSE IF a < b THEN a ELSE b

MathMax(a, b) == IF a = NaN \/ b = NaN THEN NaN ELSE IF a > b THEN a ELSE b

MathFloor(a) == IF ~IsFinite(a) THEN a ELSE (a \div Scale) * Scale

\* Math.min, Math.max and + folded over f[lo], ..., f[hi] (lo <= hi); the three
\* are associative and commutative on these numbers, so the halves may be
\* folded apart
RECURSIVE MinRange(_, _, _)
MinRange(f, lo, hi) ==
  IF lo = hi THEN f[lo]
  ELSE MathMin(MinRange(f, lo, (lo + hi) \div 2), MinRange(f, (lo + hi) \div 2 + 1, hi))

RECURSIVE MaxRange(_, _, _)
MaxRange(f, lo, hi) ==
  IF lo = hi THEN f[lo]
  ELSE MathMax(MaxRange(f, lo, (lo + hi) \div 2), MaxRange(f, (lo + hi) \div 2 + 1, hi))

RECURSIVE SumRange(_, _, _)
SumRange(f, lo, hi) ==
  IF lo = hi THEN f[lo]
  ELSE jsAdd(SumRange(f, lo, (lo + hi) \div 2), SumRange(f, (lo + hi) \div 2 + 1, hi))

RECURSIVE ISqrtBetween(_, _, _)
\* the integer r in lo..hi nearest below the square root of n (bisection)
ISqrtBetween(n, lo, hi) ==
  IF lo >= hi THEN lo
  ELSE LET mid == (lo + hi + 1) \div 2
       IN IF mid * mid <= n THEN ISqrtBetween(n, mid, hi)
          ELSE ISqrtBetween(n, lo, mid - 1)

SqrtCap == 46340

\* Math.sqrt(a ** 2 + b ** 2 + c ** 2) of three fixed-point numbers
MathHypot3(a, b, c) ==
  IF a = NaN \/ b = NaN \/ c = NaN THEN NaN
  ELSE IF ~IsFinite(a) \/ ~IsFinite(b) \/ ~IsFinite(c) THEN Infinity
  ELSE Let([n \in {a * a + b * b + c * c} |->
       Let([r \in {ISqrtBetween(n, 0, SqrtCap)} |->
         IF n - r * r > r THEN r + 1 ELSE r])])

\* ------------------------------------------------------------------- angles

HalfTurn == 128

TrigScale == 10 ^ 4

\* cos(k * pi / HalfTurn) * TrigScale for k = 0 .. HalfTurn / 2
CosQuarter ==
  << 10000, 9997, 9988, 9973, 9952, 9925, 9892, 9853, 9808, 9757, 9700, 9638,
     9569, 9495, 9415, 9330, 9239, 9142, 9040, 8932, 8819, 8701, 8577, 8449,
     8315, 8176, 8032, 7883, 7730, 7572, 7410, 7242, 7071, 6895, 6716, 6532,
     6344, 6152, 5957, 5758, 5556, 5350, 5141, 4929, 4714, 4496, 4276, 4052,
     3827, 3599, 3369, 3137, 2903, 2667, 2430, 2191, 1951, 1710, 1467, 1224,
     980, 736, 491, 245, 0 >>

\* Math.cos of an angle given in units of pi / HalfTurn, scaled by TrigScale
MathCos(angle) ==
  IF ~IsFinite(angle) THEN NaN
  ELSE Let([k \in {Abs(angle) % (2 * HalfTurn)} |->
       Let([m \in {IF k > HalfTurn THEN 2 * HalfTurn - k ELSE k} |->
         IF 2 * m <= HalfTurn THEN CosQuarter[m + 1]
         ELSE -CosQuarter[HalfTurn - m + 1]])])

MathSin(angle) == IF ~IsFinite(angle) THEN NaN ELSE MathCos(angle - HalfTurn \div 2)

\* |ay * cos(k) - ax * sin(k)|: zero when the direction (ax, ay) has angle k
CrossAt(ay, ax, k) ==
  Abs(ay * CosQuarter[k + 1] - ax * CosQuarter[HalfTurn \div 2 - k + 1])

\* the k in 0 .. HalfTurn / 2 whose direction is nearest to (ax, ay), ax, ay >= 0
NearestAngle(ay, ax) ==
  Let([c \in {[k \in 0..(HalfTurn \div 2) |-> CrossAt(ay, ax, k)]} |->
    CHOOSE k \in 0..(HalfTurn \div 2) : \A j \in 0..(HalfTurn \div 2) : c[k] <= c[j]])

\* Math.atan2(dy, dx) in units of pi / HalfTurn, to the nearest unit; exact on
\* the axes and the diagonals, and 0 at (0, 0)
MathAtan2(dy, dx) ==
  IF dy = NaN \/ dx = NaN THEN NaN
  ELSE IF dy = 0 /\ dx = 0 THEN 0
  ELSE Let([k \in {NearestAngle(Abs(dy), Abs(dx))} |->
         IF dy >= 0 THEN (IF dx >= 0 THEN k ELSE HalfTurn - k)
         ELSE (IF dx >= 0 THEN -k ELSE k - HalfTurn)])

\* --------------------------------------------------------------------- text

Digits == {"0", "1", "2", "3", "4", "5", "6", "7", "8", "9"}

DigitVal(c) ==
  CASE c = "0" -> 0 [] c = "1" -> 1 [] c = "2" -> 2 [] c = "3" -> 3 [] c = "4" -> 4
    [] c = "5" -> 5 [] c = "6" -> 6 [] c = "7" -> 7 [] c = "8" -> 8 [] c = "9" -> 9

UpperLetters ==
  {"A", "B", "C", "D", "E", "F", "G", "H", "I", "J", "K", "L", "M", "N", "O", "P",
   "Q", "R", "S", "T", "U", "V", "W", "X", "Y", "Z"}

LowerSeq ==
  <<"a", "b", "c", "d", "e", "f", "g", "h", "i", "j", "k", "l", "m", "n", "o", "p",
    "q", "r", "s", "t", "u", "v", "w", "x", "y", "z">>

UpperSeq ==
  <<"A", "B", "C", "D", "E", "F", "G", "H", "I", "J", "K", "L", "M", "N", "O", "P",
    "Q", "R", "S", "T", "U", "V", "W", "X", "Y", "Z">>

\* String.prototype.toUpperCase on one character
UpperChar(c) ==
  IF \E k \in 1..Len(LowerSeq) : LowerSeq[k] = c
  THEN UpperSeq[CHOOSE k \in 1..Len(LowerSeq) : LowerSeq[k] = c]
  ELSE c

toUpperCase(s) == [k \in 1..Len(s) |-> UpperChar(s[k])]

IsSpace(c) == c \in {" ", "\t", "\r"}

RECURSIVE TrimStart(_)
TrimStart(s) == IF s # <<>> /\ IsSpace(Head(s)) THEN TrimStart(Tail(s)) ELSE s

RECURSIVE TrimEnd(_)
TrimEnd(s) ==
  IF s # <<>> /\ IsSpace(s[Len(s)]) THEN TrimEnd(SubSeq(s, 1, Len(s) - 1)) ELSE s

trim(s) == TrimEnd(TrimStart(s))

\* index of the first c in s at or after position k, 0 when there is none
RECURSIVE IndexFrom(_, _, _)
IndexFrom(s, c, k) ==
  IF k > Len(s) THEN 0 ELSE IF s[k] = c THEN k ELSE IndexFrom(s, c, k + 1)

\* line.replace(/;.*$/, '')
StripSemicolon(s) ==
  LET k == IndexFrom(s, ";", 1) IN IF k = 0 THEN s ELSE SubSeq(s, 1, k - 1)

\* line.replace(/\(.*?\)/g, ''): each "(" up to the nearest ")" after it
RECURSIVE StripParens(_)
StripParens(s) ==
  LET o == IndexFrom(s, "(", 1)
      c == IF o = 0 THEN 0 ELSE IndexFrom(s, ")", o + 1)
  IN IF o = 0 \/ c = 0 THEN s
     ELSE SubSeq(s, 1, o - 1) \o StripParens(SubSeq(s, c + 1, Len(s)))

\* the length of the run of characters of class cls in s from position k
RECURSIVE RunLen(_, _, _)
RunLen(s, cls, k) ==
  IF k <= Len(s) /\ s[k] \in cls THEN 1 + RunLen(s, cls, k + 1) ELSE 0

RECURSIVE DigitsValue(_, _, _)
\* the value of the n digits of s from position k
DigitsValue(s, k, n) ==
  IF n = 0 THEN 0 ELSE DigitsValue(s, k, n - 1) * 10 + DigitVal(s[k + n - 1])

FracDigits == 3

RECURSIVE Pow10(_)
Pow10(n) == IF n = 0 THEN 1 ELSE 10 * Pow10(n - 1)

\* parseFloat(s): the longest prefix of s that is a decimal literal (sign,
\* digits, a point, digits), NaN when there is none; digits beyond the
\* fixed-point resolution are dropped
parseFloat(s) ==
  Let([p \in {IF s # <<>> /\ s[1] \in {"-", "+"} THEN 2 ELSE 1} |->
  Let([ni \in {RunLen(s, Digits, p)} |->
  Let([nf \in {IF p + ni <= Len(s) /\ s[p + ni] = "."
               THEN RunLen(s, Digits, p + ni + 1) ELSE 0} |->
  Let([nk \in {IF nf > FracDigits THEN FracDigits ELSE nf} |->
  Let([mag \in {DigitsValue(s, p, ni) * Scale
                  + DigitsValue(s, p + ni + 1, nk) * Pow10(FracDigits - nk)} |->
    IF ni = 0 /\ nf = 0 THEN NaN ELSE IF s[1] = "-" THEN -mag ELSE mag])])])])])

\* tokenize(line): the matches of /([A-Z])-?[\d.]+/g, left to right
RECURSIVE tokenizeFrom(_, _)
tokenizeFrom(line, k) ==
  IF k > Len(line) THEN <<>>
  ELSE IF line[k] \in UpperLetters
       THEN LET m == IF k + 1 <= Len(line) /\ line[k + 1] = "-" THEN 1 ELSE 0
                n == RunLen(line, Digits \cup {"."}, k + 1 + m)
            IN IF n > 0
               THEN <<SubSeq(line, k, k + m + n)>> \o tokenizeFrom(line, k + 1 + m + n)
               ELSE tokenizeFrom(line, k + 1)
       ELSE tokenizeFrom(line, k + 1)

tokenize(line) == tokenizeFrom(line, 1)


\* String(n) of a whole number n given in fixed point
RECURSIVE DigitsOf(_)
DigitsOf(n) ==
  IF n < 10 THEN <<CHOOSE c \in Digits : DigitVal(c) = n>>
  ELSE DigitsOf(n \div 10) \o <<CHOOSE c \in Digits : DigitVal(c) = n % 10>>

NumToString(a) ==
  IF a = NaN THEN <<"N", "a", "N">>
  ELSE IF a < 0 THEN <<"-">> \o DigitsOf((-a) \div Scale)
  ELSE DigitsOf(a \div Scale)

\* s has the characters of lit at position k, letter case ignored
HasAt(s, k, lit) ==
  /\ k >= 1
  /\ k + Len(lit) - 1 <= Len(s)
  /\ \A j \in 1..Len(lit) : UpperChar(s[k + j - 1]) = UpperChar(lit[j])

SkipSpaces(s, k) == k + RunLen(s, {" ", "\t", "\r"}, k)

\* the least k in lo..hi with P[k], 0 when there is none
RECURSIVE LeastFrom(_, _, _)
LeastFrom(P, lo, hi) ==
  IF lo > hi THEN 0 ELSE IF P[lo] THEN lo ELSE LeastFrom(P, lo + 1, hi)

\* ------------------------------------------------------- metadata comments

NumberChars == Digits \cup {"."}

CharAt(s, k) == IF k >= 1 /\ k <= Len(s) THEN s[k] ELSE ""

\* the contents of the matches of /\(([^)]*)\)/g in rawLine, each trimmed
RECURSIVE extractComments(_)
extractComments(rawLine) ==
  LET o == IndexFrom(rawLine, "(", 1)
      c == IF o = 0 THEN 0 ELSE IndexFrom(rawLine, ")", o + 1)
  IN IF o = 0 \/ c = 0 THEN <<>>
     ELSE <<trim(SubSeq(rawLine, o + 1, c - 1))>>
            \o extractComments(SubSeq(rawLine, c + 1, Len(rawLine)))

\* /,\s*TD\s*:\s*([\d.]+)/ matched at position k of c: where the number
\* starts, 0 when there is no match
TdAt(c, k) ==
  Let([k1 \in {SkipSpaces(c, k + 1)} |->
  Let([k2 \in {SkipSpaces(c, k1 + 2)} |->
  Let([k3 \in {SkipSpaces(c, k2 + 1)} |->
    IF /\ CharAt(c, k) = ","
       /\ HasAt(c, k1, <<"T", "D">>)
       /\ CharAt(c, k2) = ":"
       /\ RunLen(c, NumberChars, k3) > 0
    THEN k3 ELSE 0])])])

\* /TNM\s*:\s*\d+\s*-\s*(.+?),\s*TD\s*:\s*([\d.]+)/ matched at position k
TnmAt(c, k) ==
  Let([k1 \in {SkipSpaces(c, k + 3)} |->
  Let([k2 \in {SkipSpaces(c, k1 + 1)} |->
  Let([nd \in {RunLen(c, Digits, k2)} |->
  Let([k3 \in {SkipSpaces(c, k2 + nd)} |->
  Let([k4 \in {SkipSpaces(c, k3 + 1)} |->
    IF ~(/\ HasAt(c, k, <<"T", "N", "M">>)
         /\ CharAt(c, k1) = ":"
         /\ nd > 0
         /\ CharAt(c, k3) = "-")
    THEN [ok |-> FALSE]
    ELSE Let([e \in {LeastFrom([j \in 1..Len(c) |-> TdAt(c, j) # 0],
                               k4 + 1, Len(c))} |->
           IF e # 0 THEN [ok |-> TRUE, from |-> k4, to |-> e - 1, td |-> TdAt(c, e)]
           ELSE IF k4 > k3 + 1 /\ TdAt(c, k4) # 0
                THEN [ok |-> TRUE, from |-> k4 - 1, to |-> k4 - 1, td |-> TdAt(c, k4)]
           ELSE [ok |-> FALSE]])])])])])])

\* /TOOL\s*:\s*(\d+).*?TNM ... / matched at position k
ToolAt(c, k) ==
  Let([k1 \in {SkipSpaces(c, k + 4)} |->
  Let([k2 \in {SkipSpaces(c, k1 + 1)} |->
  Let([nd \in {RunLen(c, Digits, k2)} |->
    IF ~(/\ HasAt(c, k, <<"T", "O", "O", "L">>)
         /\ CharAt(c, k1) = ":"
         /\ nd > 0)
    THEN [ok |-> FALSE]
    ELSE Let([t \in {LeastFrom([j \in 1..Len(c) |-> TnmAt(c, j).ok],
                               k2 + nd, Len(c))} |->
           IF t = 0 THEN [ok |-> FALSE]
           ELSE Let([m \in {TnmAt(c, t)} |->
                  [ok |-> TRUE,
                   num |-> SubSeq(c, k2, k2 + nd - 1),
                   name |-> SubSeq(c, m.from, m.to),
                   td |-> SubSeq(c, m.td, m.td + RunLen(c, NumberChars, m.td) - 1)]])])])])])

\* c.match(/TOOL\s*:\s*(\d+).*?TNM\s*:\s*\d+\s*-\s*(.+?),\s*TD\s*:\s*([\d.]+)/i)
toolMatch(c) ==
  Let([k \in {LeastFrom([j \in 1..Len(c) |-> ToolAt(c, j).ok], 1, Len(c))} |->
    IF k = 0 THEN [ok |-> FALSE] ELSE ToolAt(c, k)])

\* c.match(/<keyword>.*?:\s*([\d.]+)/i): the captured number text
fieldMatch(c, keyword) ==
  Let([k \in {LeastFrom([j \in 1..Len(c) |-> HasAt(c, j, keyword)], 1, Len(c))} |->
  Let([colon \in {IF k = 0 THEN 0
                  ELSE LeastFrom([j \in 1..Len(c) |->
                                    /\ CharAt(c, j) = ":"
                                    /\ RunLen(c, NumberChars, SkipSpaces(c, j + 1)) > 0],
                                 k + Len(keyword), Len(c))} |->
  Let([d \in {SkipSpaces(c, colon + 1)} |->
    IF colon = 0 THEN [ok |-> FALSE]
    ELSE [ok |-> TRUE, text |-> SubSeq(c, d, d + RunLen(c, NumberChars, d) - 1)]])])])

\* c.match(/<keyword>\s*:\s*(.+)/i): the captured rest of the comment
restMatch(c, keyword) ==
  Let([k \in {LeastFrom([j \in 1..Len(c) |->
                           /\ HasAt(c, j, keyword)
                           /\ CharAt(c, SkipSpaces(c, j + Len(keyword))) = ":"
                           /\ SkipSpaces(c, j + Len(keyword)) < Len(c)],
                        1, Len(c))} |->
  Let([r \in {SkipSpaces(c, SkipSpaces(c, k + Len(keyword)) + 1)} |->
    IF k = 0 THEN [ok |-> FALSE]
    ELSE [ok |-> TRUE,
          text |-> SubSeq(c, IF r > Len(c) THEN Len(c) ELSE r, Len(c))]])])

OutputOn == <<"O", "u", "t", "p", "u", "t", " ", "O", "N">>

\* /Output ON\s+(.+?)\s+from/i matched at position k
DateAt(c, k) ==
  Let([n1 \in {RunLen(c, {" ", "\t", "\r"}, k + Len(OutputOn))} |->
  Let([cs \in {k + Len(OutputOn) + n1} |->
  Let([e \in {LeastFrom([j \in 1..Len(c) |->
                           /\ IsSpace(c[j])
                           /\ HasAt(c, SkipSpaces(c, j), <<"f", "r", "o", "m">>)],
                        cs + 1, Len(c))} |->
    IF ~HasAt(c, k, OutputOn) \/ n1 = 0 THEN [ok |-> FALSE]
    ELSE IF e # 0 THEN [ok |-> TRUE, text |-> SubSeq(c, cs, e - 1)]
    ELSE IF n1 >= 2 /\ HasAt(c, cs, <<"f", "r", "o", "m">>)
         THEN [ok |-> TRUE, text |-> <<" ">>]
    ELSE [ok |-> FALSE]])])])

dateMatch(c) ==
  Let([k \in {LeastFrom([j \in 1..Len(c) |-> DateAt(c, j).ok], 1, Len(c))} |->
    IF k = 0 THEN [ok |-> FALSE] ELSE DateAt(c, k)])

\* parseInt of a run of digits
parseInt(s) == DigitsValue(s, 1, Len(s)) * Scale

\* ------------------------------------------------------------ parser object

NullString == <<"null">>

Point(x, y, z) == [x |-> x, y |-> y, z |-> z]

EmptyBounds ==
  [min |-> Point(Infinity, Infinity, Infinity),
   max |-> Point(-Infinity, -Infinity, -Infinity)]

NoTools == [n \in {} |-> 0]

NoCall == [fn |-> "none", type |-> "null", exit |-> "none", line |-> 0]

\* the fields reset() assigns; call is the model's record of the last
\* parseLine: how it returned and which move handler it called
ResetFields ==
  [x |-> 0, y |-> 0, z |-> 0,
   feedRate |-> 0,
   absoluteMode |-> TRUE,
   segments |-> <<>>,
   bounds |-> EmptyBounds,
   lineCount |-> 0,
   moveCount |-> 0,
   programEnded |-> FALSE,
   lastMoveType |-> "null",
   sheet |-> [width |-> Null, length |-> Null, thickness |-> Null],
   material |-> NullString,
   jobName |-> NullString,
   outputDate |-> NullString,
   tools |-> NoTools,
   currentTool |-> Null,
   currentSpindleSpeed |-> 0,
   totalCutDist |-> 0,
   totalRapidDist |-> 0,
   feedSegments |-> <<>>,
   rapidRate |-> Num(400),
   toolChangeTime |-> Num(8),
   toolChangeCount |-> 0,
   call |-> NoCall]

\* reset() forgetting the modal motion kind
resetKeepsLastMoveType(p) == [ResetFields EXCEPT !.lastMoveType = p.lastMoveType]

reset(p) == ResetFields

\* an object before its constructor has assigned anything
Unassigned ==
  [f \in DOMAIN ResetFields |->
     IF f = "lastMoveType" THEN "undefined"
     ELSE IF f \in {"material", "jobName", "outputDate"} THEN <<"undefined">>
     ELSE Undefined]

\* new GCodeParser()
constructor == reset(Unassigned)

updateBounds(p, x, y, z) ==
  [p EXCEPT !.bounds =
     [min |-> Point(MathMin(p.bounds.min.x, x), MathMin(p.bounds.min.y, y),
                    MathMin(p.bounds.min.z, z)),
      max |-> Point(MathMax(p.bounds.max.x, x), MathMax(p.bounds.max.y, y),
                    MathMax(p.bounds.max.z, z))]]

\* updateBounds called with each point of the non-empty sequence pts in turn
updateBoundsAll(bounds, pts) ==
  LET n == Len(pts)
      xs == [k \in 1..n |-> pts[k].x]
      ys == [k \in 1..n |-> pts[k].y]
      zs == [k \in 1..n |-> pts[k].z]
  IN [min |-> Point(MathMin(bounds.min.x, MinRange(xs, 1, n)),
                    MathMin(bounds.min.y, MinRange(ys, 1, n)),
                    MathMin(bounds.min.z, MinRange(zs, 1, n))),
      max |-> Point(MathMax(bounds.max.x, MaxRange(xs, 1, n)),
                    MathMax(bounds.max.y, MaxRange(ys, 1, n)),
                    MathMax(bounds.max.z, MaxRange(zs, 1, n)))]

\* f with f[k] set to v, k added to its domain when new
Put(f, k, v) == [j \in DOMAIN f \cup {k} |-> IF j = k THEN v ELSE f[j]]

SheetWidth == <<"S", "h", "e", "e", "t", " ", "W", "i", "d", "t", "h">>

SheetLength == <<"S", "h", "e", "e", "t", " ", "L", "e", "n", "g", "t", "h">>

SheetThickness ==
  <<"S", "h", "e", "e", "t", " ", "T", "h", "i", "c", "k", "n", "e", "s", "s">>

MaterialName == <<"M", "a", "t", "e", "r", "i", "a", "l", " ", "n", "a", "m", "e">>

JobName == <<"J", "O", "B", "_", "N", "A", "M", "E">>

\* the body of parseComments' loop with the sheet length tried before the
\* sheet width
parseCommentLengthFirst(p, c) ==
  Let([tm \in {toolMatch(c)} |->
    IF tm.ok
    THEN Let([num \in {parseInt(tm.num)} |->
           [p EXCEPT !.tools =
              Put(p.tools, num,
                  [(IF num \in DOMAIN p.tools THEN p.tools[num]
                    ELSE [number |-> Undefined, name |-> <<"undefined">>,
                          diameter |-> Undefined, spindleSpeed |-> Undefined])
                   EXCEPT !.number = num, !.name = trim(tm.name),
                          !.diameter = parseFloat(tm.td)])]])
    ELSE Let([lengthMatch \in {fieldMatch(c, SheetLength)} |->
    IF lengthMatch.ok THEN [p EXCEPT !.sheet.length = parseFloat(lengthMatch.text)]
    ELSE Let([widthMatch \in {fieldMatch(c, SheetWidth)} |->
    IF widthMatch.ok THEN [p EXCEPT !.sheet.width = parseFloat(widthMatch.text)]
    ELSE Let([thickMatch \in {fieldMatch(c, SheetThickness)} |->
    IF thickMatch.ok THEN [p EXCEPT !.sheet.thickness = parseFloat(thickMatch.text)]
    ELSE Let([matMatch \in {restMatch(c, MaterialName)} |->
    IF matMatch.ok THEN [p EXCEPT !.material = trim(matMatch.text)]
    ELSE Let([jobMatch \in {restMatch(c, JobName)} |->
    IF jobMatch.ok THEN [p EXCEPT !.jobName = trim(jobMatch.text)]
    ELSE Let([dm \in {dateMatch(c)} |->
    IF dm.ok THEN [p EXCEPT !.outputDate = trim(dm.text)]
    ELSE p])])])])])])])

\* the body of parseComments' loop for one comment c
parseComment(p, c) ==
  Let([tm \in {toolMatch(c)} |->
    IF tm.ok
    THEN Let([num \in {parseInt(tm.num)} |->
           [p EXCEPT !.tools =
              Put(p.tools, num,
                  [(IF num \in DOMAIN p.tools THEN p.tools[num]
                    ELSE [number |-> Undefined, name |-> <<"undefined">>,
                          diameter |-> Undefined, spindleSpeed |-> Undefined])
                   EXCEPT !.number = num, !.name = trim(tm.name),
                          !.diameter = parseFloat(tm.td)])]])
    ELSE Let([widthMatch \in {fieldMatch(c, SheetWidth)} |->
    IF widthMatch.ok THEN [p EXCEPT !.sheet.width = parseFloat(widthMatch.text)]
    ELSE Let([lengthMatch \in {fieldMatch(c, SheetLength)} |->
    IF lengthMatch.ok THEN [p EXCEPT !.sheet.length = parseFloat(lengthMatch.text)]
    ELSE Let([thickMatch \in {fieldMatch(c, SheetThickness)} |->
    IF thickMatch.ok THEN [p EXCEPT !.sheet.thickness = parseFloat(thickMatch.text)]
    ELSE Let([matMatch \in {restMatch(c, MaterialName)} |->
    IF matMatch.ok THEN [p EXCEPT !.material = trim(matMatch.text)]
    ELSE Let([jobMatch \in {restMatch(c, JobName)} |->
    IF jobMatch.ok THEN [p EXCEPT !.jobName = trim(jobMatch.text)]
    ELSE Let([dm \in {dateMatch(c)} |->
    IF dm.ok THEN [p EXCEPT !.outputDate = trim(dm.text)]
    ELSE p])])])])])])])

RECURSIVE parseCommentList(_, _, _)
parseCommentList(p, comments, n) ==
  IF n = 0 THEN p ELSE parseComment(parseCommentList(p, comments, n - 1), comments[n])

\* parseComments reading only the lines the second pass reads: no program
\* marker
parseCommentsSkipsMarkers(p, rawLine) ==
  IF TrimStart(rawLine) # <<>> /\ UpperChar(Head(TrimStart(rawLine))) \in {"%", "O"}
  THEN p
  ELSE parseCommentList(p, extractComments(rawLine), Len(extractComments(rawLine)))

parseComments(p, rawLine) ==
  LET comments == extractComments(rawLine)
  IN parseCommentList(p, comments, Len(comments))

\* ----------------------------------------------------------- move handlers

Has(params, letter) == letter \in DOMAIN params

\* a || b on numbers: b when a is 0 or NaN
OrElse(a, b) == IF a = 0 \/ a = NaN THEN b ELSE a

\* a ?? b on an optional parameter
Coalesce(params, letter, b) == IF Has(params, letter) THEN params[letter] ELSE b

\* a segment pushed without its tool
SegmentNoTool(type, from, to, tool, line) ==
  [type |-> type, from |-> from, to |-> to, tool |-> Null, line |-> line]

\* the segment record numbered with the index of its line, from 0
SegmentZeroBased(type, from, to, tool, line) ==
  [type |-> type, from |-> from, to |-> to, tool |-> tool, line |-> line - 1]

Segment(type, from, to, tool, line) ==
  [type |-> type, from |-> from, to |-> to, tool |-> tool, line |-> line]

\* the target of a move: absolute words replace, incremental words add
\* (processLinearMove, with the roles of the two modes exchanged)
targetModesSwapped(p, params, axis, cur) ==
  IF ~Has(params, axis) THEN cur
  ELSE IF p.absoluteMode THEN jsAdd(cur, params[axis]) ELSE params[axis]

target(p, params, axis, cur) ==
  IF ~Has(params, axis) THEN cur
  ELSE IF p.absoluteMode THEN params[axis] ELSE jsAdd(cur, params[axis])

samePosition(p, q) == jsEq(p.x, q.x) /\ jsEq(p.y, q.y) /\ jsEq(p.z, q.z)

processLinearMove(p, type, params, lineNumber) ==
  Let([start \in {Point(p.x, p.y, p.z)},
       end \in {Point(target(p, params, "X", p.x), target(p, params, "Y", p.y),
                      target(p, params, "Z", p.z))} |->
  Let([moved \in {[p EXCEPT !.x = end.x, !.y = end.y, !.z = end.z]} |->
    IF samePosition(start, end) THEN moved
    ELSE Let([dist \in {MathHypot3(jsSub(end.x, start.x), jsSub(end.y, start.y),
                                   jsSub(end.z, start.z))} |->
           [updateBounds(moved, end.x, end.y, end.z) EXCEPT
              !.totalRapidDist = IF type = "rapid" THEN jsAdd(@, dist) ELSE @,
              !.totalCutDist = IF type = "rapid" THEN @ ELSE jsAdd(@, dist),
              !.feedSegments =
                 IF type = "rapid" THEN @
                 ELSE Append(@, [dist |-> dist, feed |-> OrElse(p.feedRate, Num(100))]),
              !.moveCount = @ + 1,
              !.segments = Append(@, Segment(type, start, end, p.currentTool,
                                             lineNumber))]])])])

arcSegments == 32

\* the angle of iteration s of processArc's loop:
\* startAngle + (endAngle - startAngle) * (s / arcSegments)
angleAt(startAngle, angleSpan, s) ==
  IF IsFinite(startAngle) /\ IsFinite(angleSpan)
  THEN startAngle + RoundDiv(angleSpan * s, arcSegments)
  ELSE NaN

\* the vertex (nx, ny, nz) of iteration s of processArc's loop
arcVertex(a, s) ==
  Let([angle \in {angleAt(a.startAngle, a.angleSpan, s)} |->
    Point(jsAdd(a.centerX, jsMulBy(a.radius, MathCos(angle), TrigScale)),
          jsAdd(a.centerY, jsMulBy(a.radius, MathSin(angle), TrigScale)),
          jsAdd(a.start.z,
                IF IsFinite(a.zSpan) THEN RoundDiv(a.zSpan * s, arcSegments)
                ELSE a.zSpan))])

\* processArc's loop with every segment starting at the arc's start point
arcLoopFromStart(p, a, lineNumber) ==
  Let([v \in {[s \in 1..arcSegments |-> arcVertex(a, s)]} |->
  Let([prev \in {[s \in 1..arcSegments |-> IF s = 1 THEN a.start ELSE v[s - 1]]} |->
    [p |-> [p EXCEPT
              !.bounds = updateBoundsAll(@, v),
              !.segments = @ \o [s \in 1..arcSegments |->
                                   Segment("cut", a.start, v[s], p.currentTool,
                                           lineNumber)]],
     prev |-> v[arcSegments],
     arcDist |->
       jsAdd(0, SumRange([s \in 1..arcSegments |->
                            MathHypot3(jsSub(v[s].x, prev[s].x),
                                       jsSub(v[s].y, prev[s].y),
                                       jsSub(v[s].z, prev[s].z))],
                         1, arcSegments))]])])

\* processArc's loop: the parser after it (segments, bounds), the last vertex
\* and the summed distance
arcLoop(p, a, lineNumber) ==
  Let([v \in {[s \in 1..arcSegments |-> arcVertex(a, s)]} |->
  Let([prev \in {[s \in 1..arcSegments |-> IF s = 1 THEN a.start ELSE v[s - 1]]} |->
    [p |-> [p EXCEPT
              !.bounds = updateBoundsAll(@, v),
              !.segments = @ \o [s \in 1..arcSegments |->
                                   Segment("cut", prev[s], v[s], p.currentTool,
                                           lineNumber)]],
     prev |-> v[arcSegments],
     arcDist |->
       jsAdd(0, SumRange([s \in 1..arcSegments |->
                            MathHypot3(jsSub(v[s].x, prev[s].x),
                                       jsSub(v[s].y, prev[s].y),
                                       jsSub(v[s].z, prev[s].z))],
                         1, arcSegments))]])])

\* processArc leaving the machine at the last vertex of its polyline
arcEndAtLastVertex(loop, end) == loop.prev

arcEnd(loop, end) == end

\* processArc's end angle after its direction correction
endAngleOf(type, startAngle, rawEnd) ==
  IF type = "cw_arc"
  THEN (IF jsGe(rawEnd, startAngle) THEN jsSub(rawEnd, 2 * HalfTurn) ELSE rawEnd)
  ELSE (IF jsLe(rawEnd, startAngle) THEN jsAdd(rawEnd, 2 * HalfTurn) ELSE rawEnd)

processArc(p, type, params, lineNumber) ==
  Let([start \in {Point(p.x, p.y, p.z)},
       end \in {Point(IF p.absoluteMode THEN Coalesce(params, "X", p.x)
                      ELSE jsAdd(p.x, Coalesce(params, "X", 0)),
                      IF p.absoluteMode THEN Coalesce(params, "Y", p.y)
                      ELSE jsAdd(p.y, Coalesce(params, "Y", 0)),
                      IF p.absoluteMode THEN Coalesce(params, "Z", p.z)
                      ELSE jsAdd(p.z, Coalesce(params, "Z", 0)))},
       offI \in {Coalesce(params, "I", 0)},
       offJ \in {Coalesce(params, "J", 0)} |->
  Let([centerX \in {jsAdd(start.x, offI)},
       centerY \in {jsAdd(start.y, offJ)},
       radius \in {MathHypot3(offI, offJ, 0)} |->
  Let([startAngle \in {MathAtan2(jsSub(start.y, centerY), jsSub(start.x, centerX))},
       rawEnd \in {MathAtan2(jsSub(end.y, centerY), jsSub(end.x, centerX))} |->
  Let([endAngle \in {endAngleOf(type, startAngle, rawEnd)} |->
  Let([loop \in {arcLoop(p, [start |-> start, centerX |-> centerX,
                              centerY |-> centerY, radius |-> radius,
                              startAngle |-> startAngle,
                              angleSpan |-> jsSub(endAngle, startAngle),
                              zSpan |-> jsSub(end.z, start.z)],
                         lineNumber)} |->
  Let([at \in {arcEnd(loop, end)} |->
    [loop.p EXCEPT
       !.totalCutDist = jsAdd(@, loop.arcDist),
       !.feedSegments = Append(@, [dist |-> loop.arcDist,
                                   feed |-> OrElse(p.feedRate, Num(100))]),
       !.x = at.x, !.y = at.y, !.z = at.z,
       !.moveCount = @ + 1]])])])])])])

\* ---------------------------------------------------------------- parseLine

NoParams == [l \in {} |-> 0]

\* the T branch of parseLine's word loop without its "|| existing record"
toolWordOverwrites(p, value) ==
  LET toolNum == MathFloor(value)
  IN [p EXCEPT
        !.currentTool = toolNum,
        !.tools = Put(@, toolNum,
                      [number |-> toolNum,
                       name |-> <<"T", "o", "o", "l", " ">> \o NumToString(toolNum),
                       diameter |-> Undefined, spindleSpeed |-> Undefined]),
        !.toolChangeCount = @ + 1]

\* the T branch of parseLine's word loop counting a change only when the
\* tool number differs from the current one
toolWordCountsChanges(p, value) ==
  LET toolNum == MathFloor(value)
  IN [p EXCEPT
        !.currentTool = toolNum,
        !.tools = IF toolNum \in DOMAIN p.tools THEN @
                  ELSE Put(@, toolNum,
                           [number |-> toolNum,
                            name |-> <<"T", "o", "o", "l", " ">> \o NumToString(toolNum),
                            diameter |-> Undefined, spindleSpeed |-> Undefined]),
        !.toolChangeCount = IF toolNum = p.currentTool THEN @ ELSE @ + 1]

\* the T branch of parseLine's word loop
toolWord(p, value) ==
  LET toolNum == MathFloor(value)
  IN [p EXCEPT
        !.currentTool = toolNum,
        !.tools = IF toolNum \in DOMAIN p.tools THEN @
                  ELSE Put(@, toolNum,
                           [number |-> toolNum,
                            name |-> <<"T", "o", "o", "l", " ">> \o NumToString(toolNum),
                            diameter |-> Undefined, spindleSpeed |-> Undefined]),
        !.toolChangeCount = @ + 1]

\* the S branch of parseLine's word loop
spindleWord(p, value) ==
  LET stamped == /\ p.currentTool \notin {Null, 0, NaN}
                 /\ p.currentTool \in DOMAIN p.tools
  IN [p EXCEPT
        !.currentSpindleSpeed = value,
        !.tools = IF stamped THEN [@ EXCEPT ![p.currentTool].spindleSpeed = value]
                  ELSE @]

\* parseLine's first loop keeping the first value of a letter that comes
\* again
RECURSIVE partitionWordsFirstWins(_, _, _)
partitionWordsFirstWins(p, words, n) ==
  IF n = 0 THEN [p |-> p, gCodes |-> <<>>, params |-> NoParams]
  ELSE LET acc == partitionWordsFirstWins(p, words, n - 1)
           letter == words[n][1]
           value == parseFloat(Tail(words[n]))
       IN IF letter = "G" THEN [acc EXCEPT !.gCodes = Append(@, value)]
          ELSE IF letter = "N" THEN acc
          ELSE IF letter = "T" THEN [acc EXCEPT !.p = toolWord(@, value)]
          ELSE IF letter = "S" THEN [acc EXCEPT !.p = spindleWord(@, value)]
          ELSE IF Has(acc.params, letter) THEN acc
          ELSE [acc EXCEPT !.params = Put(@, letter, value)]

\* parseLine's first loop over the first n words: the parser after the T and
\* S words, the G values in order, and the map of the other letters
RECURSIVE partitionWords(_, _, _)
partitionWords(p, words, n) ==
  IF n = 0 THEN [p |-> p, gCodes |-> <<>>, params |-> NoParams]
  ELSE LET acc == partitionWords(p, words, n - 1)
           letter == words[n][1]
           value == parseFloat(Tail(words[n]))
       IN IF letter = "G" THEN [acc EXCEPT !.gCodes = Append(@, value)]
          ELSE IF letter = "N" THEN acc
          ELSE IF letter = "T" THEN [acc EXCEPT !.p = toolWord(@, value)]
          ELSE IF letter = "S" THEN [acc EXCEPT !.p = spindleWord(@, value)]
          ELSE [acc EXCEPT !.params = Put(@, letter, value)]

SkipCodes == {Num(28), Num(30), Num(399)}

\* parseLine's switch over the G values from the k-th on, a skipping code
\* treated like any other (no return)
RECURSIVE processGCodesNoReturn(_, _, _)
processGCodesNoReturn(p, gCodes, k) ==
  IF k > Len(gCodes) THEN [p |-> p, returned |-> FALSE]
  ELSE IF gCodes[k] = Num(90)
       THEN processGCodesNoReturn([p EXCEPT !.absoluteMode = TRUE], gCodes, k + 1)
  ELSE IF gCodes[k] = Num(91)
       THEN processGCodesNoReturn([p EXCEPT !.absoluteMode = FALSE], gCodes, k + 1)
  ELSE processGCodesNoReturn(p, gCodes, k + 1)

\* parseLine's switch over the G values from the k-th on: the parser after
\* it, and whether a case returned from parseLine
RECURSIVE processGCodes(_, _, _)
processGCodes(p, gCodes, k) ==
  IF k > Len(gCodes) THEN [p |-> p, returned |-> FALSE]
  ELSE IF gCodes[k] = Num(90)
       THEN processGCodes([p EXCEPT !.absoluteMode = TRUE], gCodes, k + 1)
  ELSE IF gCodes[k] = Num(91)
       THEN processGCodes([p EXCEPT !.absoluteMode = FALSE], gCodes, k + 1)
  ELSE IF gCodes[k] \in SkipCodes THEN [p |-> p, returned |-> TRUE]
  ELSE processGCodes(p, gCodes, k + 1)

\* the move type named by the first n G values: the last of G0..G3 decides
RECURSIVE moveTypeOf(_, _)
moveTypeOf(gCodes, n) ==
  IF n = 0 THEN "null"
  ELSE IF gCodes[n] = Num(0) THEN "rapid"
  ELSE IF gCodes[n] = Num(1) THEN "cut"
  ELSE IF gCodes[n] = Num(2) THEN "cw_arc"
  ELSE IF gCodes[n] = Num(3) THEN "ccw_arc"
  ELSE moveTypeOf(gCodes, n - 1)

\* the move type parseLine resolves, the inherited one forgotten
resolveMoveTypeNoModal(p, gCodes, params) ==
  LET named == moveTypeOf(gCodes, Len(gCodes))
  IN IF named = "null" /\ (Has(params, "X") \/ Has(params, "Y") \/ Has(params, "Z"))
     THEN "cut"
     ELSE named

\* the move type parseLine resolves: named by a G code, else inherited when
\* the line has a coordinate word, else none
resolveMoveType(p, gCodes, params) ==
  LET named == moveTypeOf(gCodes, Len(gCodes))
  IN IF named = "null" /\ (Has(params, "X") \/ Has(params, "Y") \/ Has(params, "Z"))
     THEN (IF p.lastMoveType \in {"null", "undefined"} THEN "cut" ELSE p.lastMoveType)
     ELSE named

\* words holds the token M30 or the token M02
endsProgram(words) ==
  \E k \in 1..Len(words) : words[k] \in {<<"M", "3", "0">>, <<"M", "0", "2">>}

\* the text parseLine tokenizes
cleanLine(line) == toUpperCase(trim(StripParens(StripSemicolon(line))))

\* parseLine's dispatch with the line's F word stored before the move
dispatchMoveNewFeed(p, moveType, params, lineNumber) ==
  IF moveType = "null" THEN p
  ELSE IF moveType \in {"cw_arc", "ccw_arc"}
       THEN processArc([p EXCEPT !.lastMoveType = moveType,
                                 !.feedRate = Coalesce(params, "F", @)],
                       moveType, params, lineNumber)
       ELSE processLinearMove([p EXCEPT !.lastMoveType = moveType,
                                        !.feedRate = Coalesce(params, "F", @)],
                              moveType, params, lineNumber)

\* parseLine's dispatch: the handler of moveType, none when there is no move
dispatchMove(p, moveType, params, lineNumber) ==
  IF moveType = "null" THEN p
  ELSE IF moveType \in {"cw_arc", "ccw_arc"}
       THEN processArc([p EXCEPT !.lastMoveType = moveType], moveType, params,
                       lineNumber)
       ELSE processLinearMove([p EXCEPT !.lastMoveType = moveType], moveType, params,
                              lineNumber)

\* the name of the handler dispatchMove calls
handlerOf(moveType) ==
  IF moveType = "null" THEN "none"
  ELSE IF moveType \in {"cw_arc", "ccw_arc"} THEN "processArc"
  ELSE "processLinearMove"

\* if ('F' in params) this.feedRate = params.F
setFeedRate(p, params) ==
  IF Has(params, "F") THEN [p EXCEPT !.feedRate = params["F"]] ELSE p

\* parseLine's last loop: M30 or M02 among the words ends the program
endProgram(p, words) ==
  IF endsProgram(words) THEN [p EXCEPT !.programEnded = TRUE] ELSE p

\* parseLine (after the ended check) taking the T and S words of a line only
\* when no G-code of the line makes it return
parseLineBodySkipsWords(p, line, lineNumber) ==
  Let([clean \in {cleanLine(line)} |->
    IF clean = <<>> \/ clean[1] = "%" \/ clean[1] = "O"
    THEN [p EXCEPT !.call = [NoCall EXCEPT !.exit = "marker", !.line = lineNumber]]
    ELSE
  Let([words \in {tokenize(clean)} |->
    IF words = <<>>
    THEN [p EXCEPT !.call = [NoCall EXCEPT !.exit = "notokens", !.line = lineNumber]]
    ELSE
  Let([parts \in {partitionWords(p, words, Len(words))} |->
  Let([coded \in {processGCodes(parts.p, parts.gCodes, 1)} |->
    IF coded.returned
    THEN [p EXCEPT !.absoluteMode = coded.p.absoluteMode,
                   !.call = [NoCall EXCEPT !.exit = "skip", !.line = lineNumber]]
    ELSE
  Let([moveType \in {resolveMoveType(coded.p, parts.gCodes, parts.params)} |->
    [endProgram(setFeedRate(dispatchMove(coded.p, moveType, parts.params, lineNumber),
                            parts.params),
                words)
     EXCEPT !.call = [fn |-> handlerOf(moveType), type |-> moveType, exit |-> "end",
                      line |-> lineNumber]]])])])])])

\* parseLine with its first statement (the program-ended return) removed
parseLineBody(p, line, lineNumber) ==
  Let([clean \in {cleanLine(line)} |->
    IF clean = <<>> \/ clean[1] = "%" \/ clean[1] = "O"
    THEN [p EXCEPT !.call = [NoCall EXCEPT !.exit = "marker", !.line = lineNumber]]
    ELSE
  Let([words \in {tokenize(clean)} |->
    IF words = <<>>
    THEN [p EXCEPT !.call = [NoCall EXCEPT !.exit = "notokens", !.line = lineNumber]]
    ELSE
  Let([parts \in {partitionWords(p, words, Len(words))} |->
  Let([coded \in {processGCodes(parts.p, parts.gCodes, 1)} |->
    IF coded.returned
    THEN [coded.p EXCEPT !.call = [NoCall EXCEPT !.exit = "skip", !.line = lineNumber]]
    ELSE
  Let([moveType \in {resolveMoveType(coded.p, parts.gCodes, parts.params)} |->
    [endProgram(setFeedRate(dispatchMove(coded.p, moveType, parts.params, lineNumber),
                            parts.params),
                words)
     EXCEPT !.call = [fn |-> handlerOf(moveType), type |-> moveType, exit |-> "end",
                      line |-> lineNumber]]])])])])])

\* parseLine without the program-ended return
parseLineNoEndCheck(p, line, lineNumber) == parseLineBody(p, line, lineNumber)

parseLine(p, line, lineNumber) ==
  IF p.programEnded
  THEN [p EXCEPT !.call = [NoCall EXCEPT !.exit = "ended", !.line = lineNumber]]
  ELSE parseLineBody(p, line, lineNumber)

\* ------------------------------------------------------------ after parsing

\* trimParkMoves' first loop with a rectangle that starts as the origin
cutBoundsFromOrigin(segments) ==
  LET n == Len(segments)
      cut(k) == segments[k].type # "rapid"
      loX == [k \in 1..n |-> IF cut(k) THEN MathMin(segments[k].from.x, segments[k].to.x)
                              ELSE 0]
      hiX == [k \in 1..n |-> IF cut(k) THEN MathMax(segments[k].from.x, segments[k].to.x)
                              ELSE 0]
      loY == [k \in 1..n |-> IF cut(k) THEN MathMin(segments[k].from.y, segments[k].to.y)
                              ELSE 0]
      hiY == [k \in 1..n |-> IF cut(k) THEN MathMax(segments[k].from.y, segments[k].to.y)
                              ELSE 0]
  IN IF n = 0
     THEN [minX |-> 0, maxX |-> 0, minY |-> 0, maxY |-> 0]
     ELSE [minX |-> MinRange(loX, 1, n), maxX |-> MaxRange(hiX, 1, n),
           minY |-> MinRange(loY, 1, n), maxY |-> MaxRange(hiY, 1, n)]

\* trimParkMoves' first loop: the X/Y rectangle of the segments that are not
\* rapids, from and to
cutBoundsOf(segments) ==
  LET n == Len(segments)
      cut(k) == segments[k].type # "rapid"
      loX == [k \in 1..n |-> IF cut(k) THEN MathMin(segments[k].from.x, segments[k].to.x)
                              ELSE Infinity]
      hiX == [k \in 1..n |-> IF cut(k) THEN MathMax(segments[k].from.x, segments[k].to.x)
                              ELSE -Infinity]
      loY == [k \in 1..n |-> IF cut(k) THEN MathMin(segments[k].from.y, segments[k].to.y)
                              ELSE Infinity]
      hiY == [k \in 1..n |-> IF cut(k) THEN MathMax(segments[k].from.y, segments[k].to.y)
                              ELSE -Infinity]
  IN IF n = 0
     THEN [minX |-> Infinity, maxX |-> -Infinity, minY |-> Infinity, maxY |-> -Infinity]
     ELSE [minX |-> MinRange(loX, 1, n), maxX |-> MaxRange(hiX, 1, n),
           minY |-> MinRange(loY, 1, n), maxY |-> MaxRange(hiY, 1, n)]

\* the test of trimParkMoves' while loop taking every rapid for a park move
isParkMoveAnyRapid(last, cutBounds, margin) == last.type = "rapid"

\* the test of trimParkMoves' while loop on the last segment
isParkMove(last, cutBounds, margin) ==
  /\ last.type = "rapid"
  /\ \/ jsGt(last.to.x, jsAdd(cutBounds.maxX, margin))
     \/ jsLt(last.to.x, jsSub(cutBounds.minX, margin))
     \/ jsGt(last.to.y, jsAdd(cutBounds.maxY, margin))
     \/ jsLt(last.to.y, jsSub(cutBounds.minY, margin))

\* trimParkMoves with an if in place of its while: one segment at most goes
popAtMostOne(segments, cutBounds, margin) ==
  IF segments # <<>> /\ isParkMove(segments[Len(segments)], cutBounds, margin)
  THEN SubSeq(segments, 1, Len(segments) - 1)
  ELSE segments

RECURSIVE popParkMoves(_, _, _)
\* trimParkMoves' while loop
popParkMoves(segments, cutBounds, margin) ==
  IF segments # <<>> /\ isParkMove(segments[Len(segments)], cutBounds, margin)
  THEN popParkMoves(SubSeq(segments, 1, Len(segments) - 1), cutBounds, margin)
  ELSE segments

\* trimParkMoves' last statements: the bounds emptied, then updateBounds on
\* from and to of every segment
boundsOver(segments) ==
  IF segments = <<>> THEN EmptyBounds
  ELSE updateBoundsAll(EmptyBounds,
         [k \in 1..(2 * Len(segments)) |->
            IF k % 2 = 1 THEN segments[(k + 1) \div 2].from ELSE segments[k \div 2].to])

\* trimParkMoves with no margin around the cut rectangle
marginNone(cutBounds) == Num(0)

\* trimParkMoves' margin: a tenth of the cut width, 5 at least
marginOf(cutBounds) ==
  MathMax(jsMul(jsSub(cutBounds.maxX, cutBounds.minX), Scale \div 10), Num(5))

\* trimParkMoves leaving the running bounds in place
trimKeepsBounds(p) ==
  Let([cutBounds \in {cutBoundsOf(p.segments)} |->
    [p EXCEPT !.segments = popParkMoves(p.segments, cutBounds, marginOf(cutBounds))]])

\* trimParkMoves taking the length of the rapids it removes off the rapid
\* total
trimTakesDistance(p) ==
  Let([cutBounds \in {cutBoundsOf(p.segments)} |->
  Let([kept \in {popParkMoves(p.segments, cutBounds, marginOf(cutBounds))} |->
    [p EXCEPT !.segments = kept, !.bounds = boundsOver(kept),
              !.totalRapidDist =
                 IF Len(kept) = Len(p.segments) THEN @
                 ELSE jsSub(@, SumRange([k \in 1..Len(p.segments) |->
                                 MathHypot3(jsSub(p.segments[k].to.x, p.segments[k].from.x),
                                            jsSub(p.segments[k].to.y, p.segments[k].from.y),
                                            jsSub(p.segments[k].to.z, p.segments[k].from.z))],
                               Len(kept) + 1, Len(p.segments)))]])])

trimParkMoves(p) ==
  Let([cutBounds \in {cutBoundsOf(p.segments)} |->
  Let([kept \in {popParkMoves(p.segments, cutBounds, marginOf(cutBounds))} |->
    [p EXCEPT !.segments = kept, !.bounds = boundsOver(kept)]])])

\* ------------------------------------------------------------ input lines

\* "": an empty line (the piece after a final newline)
LineBlank ==
  <<>>

\* "G91"
LineG91 ==
  <<"G", "9", "1">>

\* "g1 x5 f50"
LineCut ==
  <<"g", "1", " ", "x", "5", " ", "f", "5", "0">>

\* "X5 Y5 Z-1": coordinate words alone
LineModal ==
  <<"X", "5", " ", "Y", "5", " ", "Z", "-", "1">>

\* "G1 G0 X12 (park) ; G1": two motion codes, a comment, a ; comment
LineRapid ==
  <<"G", "1", " ", "G", "0", " ", "X", "1", "2", " ", "(", "p", "a", "r", "k",
  ")", " ", ";", " ", "G", "1">>

\* "G2 X10 Y0 I5 J0"
LineArcCW ==
  <<"G", "2", " ", "X", "1", "0", " ", "Y", "0", " ", "I", "5", " ", "J",
  "0">>

\* "G3 X0 Y0 I-5"
LineArcCCW ==
  <<"G", "3", " ", "X", "0", " ", "Y", "0", " ", "I", "-", "5">>

\* "M30"
LineM30 ==
  <<"M", "3", "0">>

\* "G91 G28 G90 X5 F50 M30": a skipping code between other words
LineHome ==
  <<"G", "9", "1", " ", "G", "2", "8", " ", "G", "9", "0", " ", "X", "5", " ",
  "F", "5", "0", " ", "M", "3", "0">>

\* "G1 X.": a word whose number does not parse
LineBadWord ==
  <<"G", "1", " ", "X", ".">>

\* "O1 G1 X5": a program marker
LineMarker ==
  <<"O", "1", " ", "G", "1", " ", "X", "5">>

\* "T1 S100 (TOOL:1 TNM:1 - A, TD:.25)(Sheet Width: 48)"
LineTool ==
  <<"T", "1", " ", "S", "1", "0", "0", " ", "(", "T", "O", "O", "L", ":", "1",
  " ", "T", "N", "M", ":", "1", " ", "-", " ", "A", ",", " ", "T", "D", ":",
  ".", "2", "5", ")", "(", "S", "h", "e", "e", "t", " ", "W", "i", "d", "t",
  "h", ":", " ", "4", "8", ")">>

\* "G90 G0 X0 Y0 M02"
LineEnd ==
  <<"G", "9", "0", " ", "G", "0", " ", "X", "0", " ", "Y", "0", " ", "M", "0",
  "2">>

\* "G90"
LineG90 ==
  <<"G", "9", "0">>

\* "G98 M99 (note)": codes parseLine has no case for, and a comment that is
\* no metadata
LineUnknown ==
  <<"G", "9", "8", " ", "M", "9", "9", " ", "(", "n", "o", "t", "e", ")">>

\* "abc": no letter is followed by a number
LineNoTokens ==
  <<"a", "b", "c">>

\* "G2 I.": an arc whose centre offset does not parse
LineBadArc ==
  <<"G", "2", " ", "I", ".">>

\* "N5 T2 M6 G0 X3": a tool change with no tool comment, and a rapid
LineT2 ==
  <<"N", "5", " ", "T", "2", " ", "M", "6", " ", "G", "0", " ", "X", "3">>

\* "(tool: 1 TNM:9 - B, TD:.5)": tool 1 defined again
LineToolDef ==
  <<"(", "t", "o", "o", "l", ":", " ", "1", " ", "T", "N", "M", ":", "9",
  " ", "-", " ", "B", ",", " ", "T", "D", ":", ".", "5", ")">>

\* "T0 S500 F-5": a spindle speed while tool 0 is the current tool, and a
\* feed below zero
LineT0 ==
  <<"T", "0", " ", "S", "5", "0", "0", " ", "F", "-", "5">>

\* "F.": a feed whose number does not parse
LineBadFeed ==
  <<"F", ".">>

\* "N7 G2 X2 X4 I1 I2 F10 F20 S9 T3": an arc with letters that come twice,
\* and a tool word behind an S word and the coordinates
LineWords ==
  <<"N", "7", " ", "G", "2", " ", "X", "2", " ", "X", "4", " ", "I", "1", " ",
  "I", "2", " ", "F", "1", "0", " ", "F", "2", "0", " ", "S", "9", " ", "T",
  "3">>

\* "O1 (Sheet Width Sheet Length: 5)(JOB_NAME: Material name: x)":
\* a program marker with two comments that each fit two metadata patterns
LineMeta ==
  <<"O", "1", " ", "(", "S", "h", "e", "e", "t", " ", "W", "i", "d", "t", "h",
  " ", "S", "h", "e", "e", "t", " ", "L", "e", "n", "g", "t", "h", ":", " ",
  "5", ")", "(", "J", "O", "B", "_", "N", "A", "M", "E", ":", " ", "M", "a",
  "t", "e", "r", "i", "a", "l", " ", "n", "a", "m", "e", ":", " ", "x", ")">>

\* "G28 (Output ON 1 from)(TOOL:2 TNM:2 - Sheet Thickness: 3, TD:1)":
\* a homing line with a date comment and a tool comment that also fits the
\* thickness pattern
LineHomeNote ==
  <<"G", "2", "8", " ", "(", "O", "u", "t", "p", "u", "t", " ", "O", "N", " ",
  "1", " ", "f", "r", "o", "m", ")", "(", "T", "O", "O", "L", ":", "2", " ",
  "T", "N", "M", ":", "2", " ", "-", " ", "S", "h", "e", "e", "t", " ", "T",
  "h", "i", "c", "k", "n", "e", "s", "s", ":", " ", "3", ",", " ", "T", "D",
  ":", "1", ")">>

\* "G0 X. Y.": a rapid whose X and Y do not parse
LineBadRapid ==
  <<"G", "0", " ", "X", ".", " ", "Y", ".">>

\* "G28 T4 S700 X5": a homing line with a tool word, a spindle speed and a
\* coordinate
LineHomeTool ==
  <<"G", "2", "8", " ", "T", "4", " ", "S", "7", "0", "0", " ", "X", "5">>

Lines ==
  {LineBlank, LineG91, LineCut, LineModal, LineRapid,
   LineArcCW, LineArcCCW, LineM30, LineHome, LineBadWord,
   LineMarker, LineTool, LineEnd, LineT2, LineToolDef, LineG90,
   LineUnknown, LineNoTokens, LineBadArc}

\* -------------------------------------------------------------- cycle time

MathRound(a) == IF ~IsFinite(a) THEN a ELSE ((2 * a + Scale) \div (2 * Scale)) * Scale

\* a % b for finite b > 0
jsMod(a, b) ==
  IF ~IsFinite(a) THEN NaN ELSE IF a >= 0 THEN a % b ELSE -((-a) % b)

\* String(a) for the values formatTime prints
TimeToString(a) ==
  IF a = Infinity THEN <<"I", "n", "f", "i", "n", "i", "t", "y">> ELSE NumToString(a)

formatTime(seconds) ==
  Let([m \in {MathFloor(jsDiv(seconds, Num(60)))} |->
    IF jsEq(m, 0) THEN TimeToString(MathRound(jsMod(seconds, Num(60)))) \o <<"s">>
    ELSE TimeToString(m) \o <<"m", " ">>
           \o TimeToString(MathRound(jsMod(seconds, Num(60)))) \o <<"s">>])

RECURSIVE cutTimeOf(_, _)
\* calculateCycleTime's loop over the first n feed samples
cutTimeOf(feedSegments, n) ==
  IF n = 0 THEN 0
  ELSE LET seg == feedSegments[n]
           feed == IF jsGt(seg.feed, 0) THEN seg.feed ELSE Num(100)
       IN jsAdd(cutTimeOf(feedSegments, n - 1), jsMul(jsDiv(seg.dist, feed), Num(60)))

\* calculateCycleTime with the cut time left out of the total
calculateCycleTimeCutDropped(p) ==
  Let([rapidTimeSec \in {jsMul(jsDiv(p.totalRapidDist, p.rapidRate), Num(60))},
       cutTimeSec \in {cutTimeOf(p.feedSegments, Len(p.feedSegments))},
       tcTime \in {(IF p.toolChangeCount - 1 > 0 THEN p.toolChangeCount - 1 ELSE 0)
                     * p.toolChangeTime} |->
  Let([totalSec \in {jsAdd(rapidTimeSec, tcTime)} |->
    [rapidTime |-> rapidTimeSec,
     cutTime |-> cutTimeSec,
     toolChangeTime |-> tcTime,
     totalTime |-> totalSec,
     totalCutDist |-> p.totalCutDist,
     totalRapidDist |-> p.totalRapidDist,
     formatted |-> formatTime(totalSec)]])])

calculateCycleTime(p) ==
  Let([rapidTimeSec \in {jsMul(jsDiv(p.totalRapidDist, p.rapidRate), Num(60))},
       cutTimeSec \in {cutTimeOf(p.feedSegments, Len(p.feedSegments))},
       tcTime \in {(IF p.toolChangeCount - 1 > 0 THEN p.toolChangeCount - 1 ELSE 0)
                     * p.toolChangeTime} |->
  Let([totalSec \in {jsAdd(jsAdd(rapidTimeSec, cutTimeSec), tcTime)} |->
    [rapidTime |-> rapidTimeSec,
     cutTime |-> cutTimeSec,
     toolChangeTime |-> tcTime,
     totalTime |-> totalSec,
     totalCutDist |-> p.totalCutDist,
     totalRapidDist |-> p.totalRapidDist,
     formatted |-> formatTime(totalSec)]])])

\* the object parse() would return with the moveCount counter as its count
resultOfCounter(p) ==
  [segments |-> p.segments,
   bounds |-> p.bounds,
   stats |-> [lineCount |-> p.lineCount, moveCount |-> p.moveCount,
              bounds |-> p.bounds],
   sheet |-> p.sheet,
   material |-> p.material,
   jobName |-> p.jobName,
   tools |-> p.tools,
   cycleTime |-> calculateCycleTime(p)]

\* the object parse() returns
resultOf(p) ==
  [segments |-> p.segments,
   bounds |-> p.bounds,
   stats |-> [lineCount |-> p.lineCount, moveCount |-> Len(p.segments),
              bounds |-> p.bounds],
   sheet |-> p.sheet,
   material |-> p.material,
   jobName |-> p.jobName,
   tools |-> p.tools,
   cycleTime |-> calculateCycleTime(p)]

\* -------------------------------------------------------------------- parse

\* parse()'s first pass over the first n lines of text
RECURSIVE commentsPass(_, _, _)
commentsPass(p, text, n) ==
  IF n = 0 THEN p ELSE parseComments(commentsPass(p, text, n - 1), text[n])

\* parse()'s second pass over the first n lines of text
RECURSIVE movesPass(_, _, _)
movesPass(p, text, n) ==
  IF n = 0 THEN p ELSE parseLine(movesPass(p, text, n - 1), text[n], n)

\* p.parse(text), text the sequence of lines: what it returns
parse(p, text) ==
  resultOf(trimParkMoves(
    movesPass(commentsPass([reset(p) EXCEPT !.lineCount = Len(text)],
                           text, Len(text)),
              text, Len(text))))

\* ------------------------------------------------------------------ viewer

\* new GCodeViewer(container): the animation state.  The three buffers are
\* kept as their lengths, preallocated telling Float32Arrays from the empty
\* arrays of the constructor; playState is the last value handed to
\* onPlayStateChange, pastEnd whether a write fell outside a Float32Array
GCodeViewer ==
  [segments |-> <<>>,
   playing |-> FALSE,
   playbackSpeed |-> Num(1),
   currentSegmentIndex |-> 0,
   segmentProgress |-> 0,
   lastFrameTime |-> 0,
   rapidPositions |-> 0,
   cutPositions |-> 0,
   cutColors |-> 0,
   preallocated |-> FALSE,
   rapidDrawCount |-> 0,
   cutDrawCount |-> 0,
   playState |-> "none",
   pastEnd |-> FALSE]

\* the length of an array after the six writes at i .. i + 5: a Float32Array
\* keeps its length, an array grows
lengthAfterWrite(v, length, i) ==
  IF v.preallocated \/ length >= i + 6 THEN length ELSE i + 6

addSegmentToScene(v, seg) ==
  IF seg.type = "rapid"
  THEN [v EXCEPT
          !.rapidPositions = lengthAfterWrite(v, @, v.rapidDrawCount * 6),
          !.pastEnd = @ \/ (v.preallocated /\ v.rapidDrawCount * 6 + 5 >= v.rapidPositions),
          !.rapidDrawCount = @ + 1]
  ELSE [v EXCEPT
          !.cutPositions = lengthAfterWrite(v, @, v.cutDrawCount * 6),
          !.cutColors = lengthAfterWrite(v, @, v.cutDrawCount * 6),
          !.pastEnd = @ \/ (v.preallocated /\ (\/ v.cutDrawCount * 6 + 5 >= v.cutPositions
                                               \/ v.cutDrawCount * 6 + 5 >= v.cutColors)),
          !.cutDrawCount = @ + 1]

\* for (let i = from; i < to; i++) this.addSegmentToScene(this.segments[i])
RECURSIVE addSegments(_, _, _)
addSegments(v, from, to) ==
  IF from >= to THEN v
  ELSE addSegments(addSegmentToScene(v, v.segments[from + 1]), from + 1, to)

pause(v) == [v EXCEPT !.playing = FALSE, !.playState = "false"]

restart(v) ==
  [pause(v) EXCEPT !.currentSegmentIndex = 0, !.segmentProgress = 0,
                   !.rapidDrawCount = 0, !.cutDrawCount = 0]

\* play() going on from the end of the toolpath without a restart
playFromEnd(v) ==
  IF v.segments = <<>> THEN v
  ELSE [v EXCEPT !.playing = TRUE, !.lastFrameTime = 0, !.playState = "true"]

play(v) ==
  IF v.segments = <<>> THEN v
  ELSE [(IF v.currentSegmentIndex >= Len(v.segments) THEN restart(v) ELSE v)
        EXCEPT !.playing = TRUE, !.lastFrameTime = 0, !.playState = "true"]

togglePlay(v) == IF v.playing THEN pause(v) ELSE play(v)

showAll(v) ==
  [addSegments(pause(v), v.currentSegmentIndex, Len(v.segments))
   EXCEPT !.currentSegmentIndex = Len(v.segments), !.segmentProgress = 0]

\* scrubTo() drawing on from where it stands also when the target lies behind
scrubToKeepsDrawn(v, fraction) ==
  Let([targetIndex \in {MathFloor(jsMul(fraction, Num(Len(v.segments)))) \div Scale} |->
    [addSegments(v, v.currentSegmentIndex,
                 IF targetIndex < Len(v.segments) THEN targetIndex ELSE Len(v.segments))
     EXCEPT !.currentSegmentIndex = targetIndex, !.segmentProgress = 0]])

scrubTo(v, fraction) ==
  Let([targetIndex \in {MathFloor(jsMul(fraction, Num(Len(v.segments)))) \div Scale} |->
  Let([start \in {IF targetIndex <= v.currentSegmentIndex THEN restart(v) ELSE v} |->
    [addSegments(start, start.currentSegmentIndex,
                 IF targetIndex < Len(v.segments) THEN targetIndex ELSE Len(v.segments))
     EXCEPT !.currentSegmentIndex = targetIndex, !.segmentProgress = 0]])])

\* advancePlayback's while loop, remaining segments still to advance
RECURSIVE advanceLoop(_, _)
advanceLoop(v, remaining) ==
  IF ~(jsGt(remaining, 0) /\ v.currentSegmentIndex < Len(v.segments)) THEN v
  ELSE Let([leftInSegment \in {jsSub(Num(1), v.segmentProgress)} |->
         IF jsGe(remaining, leftInSegment)
         THEN advanceLoop([addSegmentToScene(v, v.segments[v.currentSegmentIndex + 1])
                           EXCEPT !.segmentProgress = 0, !.currentSegmentIndex = @ + 1],
                          jsSub(remaining, leftInSegment))
         ELSE [v EXCEPT !.segmentProgress = jsAdd(@, remaining)]])

advancePlayback(v, dt) ==
  IF v.currentSegmentIndex >= Len(v.segments) THEN pause(v)
  ELSE Let([baseRate \in {MathMax(jsDiv(Num(Len(v.segments)), Num(30)), Num(10))} |->
       Let([after \in {advanceLoop(v, jsMul(jsMul(baseRate, v.playbackSpeed), dt))} |->
         IF after.currentSegmentIndex >= Len(after.segments) THEN pause(after)
         ELSE after])])

animateFrame(v, time) ==
  IF v.playing /\ Len(v.segments) > 0
  THEN advancePlayback([v EXCEPT !.lastFrameTime = time],
                       IF v.lastFrameTime # 0
                       THEN jsDiv(jsSub(time, v.lastFrameTime), Num(1000))
                       ELSE 0)
  ELSE [v EXCEPT !.lastFrameTime = time]

clearToolpath(v) ==
  [pause(v) EXCEPT !.segments = <<>>,
                   !.rapidPositions = 0, !.cutPositions = 0, !.cutColors = 0,
                   !.preallocated = FALSE,
                   !.rapidDrawCount = 0, !.cutDrawCount = 0,
                   !.currentSegmentIndex = 0, !.segmentProgress = 0]

\* loadToolpath(segments, bounds); bounds goes to the colours and the camera
loadToolpath(v, segments) ==
  Let([rapidCount \in {Cardinality({k \in 1..Len(segments) :
                                      segments[k].type = "rapid"})} |->
    IF segments = <<>> THEN clearToolpath(v)
    ELSE [clearToolpath(v) EXCEPT
            !.segments = segments,
            !.rapidPositions = rapidCount * 6,
            !.cutPositions = (Len(segments) - rapidCount) * 6,
            !.cutColors = (Len(segments) - rapidCount) * 6,
            !.preallocated = TRUE,
            !.rapidDrawCount = 0, !.cutDrawCount = 0]])

\* the segment lists handed to the viewer: those parse() returns for four
\* texts (a cut; a rapid and a cut; a cut, a rapid and a cut; rapid, rapid
\* and cut) and a list of none
Toolpaths ==
  {parse(constructor, text).segments :
     text \in {<<LineCut>>, <<LineRapid, LineCut>>, <<LineCut, LineRapid, LineCut>>,
               <<LineT2, LineRapid, LineCut>>}}
    \cup {<<>>}

\* the places on the progress bar: its ends, the middle, nine tenths
Fractions == {0, Scale \div 2, (9 * Scale) \div 10, Scale}

\* the time from one animation frame to the next, in milliseconds
FrameGaps == {Num(50), Num(250)}

\* the dt of a call of advancePlayback, in seconds: none, 0.05, 0.25
Steps == {0, Scale \div 20, Scale \div 4}

\* the settings of the speed control
Speeds == {Num(1), Num(2), Num(4)}

\* the timestamp of the last animation frame.  animateFrame reads the time
\* passed since the frame before and nothing else of a timestamp, so time is
\* counted anew from each frame
FrameStart == Num(1000)

\* reset() emptying the segments array in place
resetKeepsSegments == {"bounds", "tools", "sheet"}

\* the fields of the parser reset() assigns a new array or object to
resetAllocates == {"segments", "bounds", "tools", "sheet"}

\* ------------------------------------------------------------ state machine

MaxLines == 3

VARIABLES
  parser,       \* the application's GCodeParser, reused for every text
  lines,        \* gcodeText.split('\n'), as far as parse() has read it
  pc,           \* where parse() stands: idle, comments, moves, trim, return
  i,            \* the loop index of parse()'s current pass
  result,       \* loadGCode's local: what parser.parse(text) returned
  reused,       \* whether parser had parsed a text before the current one
  shared,       \* the fields of result that are the parser's own array or object
  viewer        \* the application's GCodeViewer

vars == <<parser, lines, pc, i, result, reused, shared, viewer>>

NoResult == [segments |-> <<>>]

Init ==
  /\ parser = constructor
  /\ lines = <<>>
  /\ pc = "idle"
  /\ i = 0
  /\ result = NoResult
  /\ reused = FALSE
  /\ shared = {}
  /\ viewer = GCodeViewer

\* parse(gcodeText) is called with a text of n lines: reset() and lineCount
Parse(n) ==
  /\ pc = "idle"
  /\ parser' = [reset(parser) EXCEPT !.lineCount = n]
  /\ lines' = <<>>
  /\ pc' = "comments"
  /\ i' = 0
  /\ result' = NoResult
  /\ reused' = (parser.lineCount > 0)
  /\ shared' = {}
  /\ UNCHANGED viewer

\* parse(gcodeText) is called while the result of the parse before is still
\* held (by loadGCode's caller, by the viewer): reset() and lineCount
ParseHeld(n) ==
  /\ pc = "idle"
  /\ parser' = [reset(parser) EXCEPT !.lineCount = n]
  /\ lines' = <<>>
  /\ pc' = "comments"
  /\ i' = 0
  /\ reused' = (parser.lineCount > 0)
  /\ shared' = shared \ resetAllocates
  /\ UNCHANGED <<result, viewer>>

\* one iteration of the first pass: parseComments(lines[i]), the line read
\* here being one of L
ParseComments(L) ==
  /\ pc = "comments"
  /\ \E line \in L :
       /\ lines' = Append(lines, line)
       /\ parser' = parseComments(parser, line)
  /\ i' = IF i + 1 = parser.lineCount THEN 0 ELSE i + 1
  /\ pc' = IF i + 1 = parser.lineCount THEN "moves" ELSE "comments"
  /\ UNCHANGED <<result, reused, shared, viewer>>

\* one iteration of the second pass: parseLine(lines[i], i + 1)
ParseLine ==
  /\ pc = "moves"
  /\ parser' = parseLine(parser, lines[i + 1], i + 1)
  /\ i' = i + 1
  /\ pc' = IF i + 1 = parser.lineCount THEN "trim" ELSE "moves"
  /\ UNCHANGED <<lines, result, reused, shared, viewer>>

TrimParkMoves ==
  /\ pc = "trim"
  /\ parser' = trimParkMoves(parser)
  /\ pc' = "return"
  /\ shared' = shared \ {"bounds"}
  /\ UNCHANGED <<lines, i, result, reused, viewer>>

\* parse() returns; the caller holds the result until it parses again
Return ==
  /\ pc = "return"
  /\ result' = resultOf(parser)
  /\ pc' = "idle"
  /\ shared' = {"segments", "bounds", "tools", "sheet"}
  /\ UNCHANGED <<parser, lines, i, reused, viewer>>

NextOver(L) ==
  \/ \E n \in 1..MaxLines : Parse(n)
  \/ ParseComments(L)
  \/ ParseLine
  \/ TrimParkMoves
  \/ Return

Spec == Init /\ [][NextOver(Lines)]_vars

LoadToolpath ==
  /\ \E segments \in Toolpaths : viewer' = loadToolpath(viewer, segments)
  /\ UNCHANGED <<parser, lines, pc, i, result, reused, shared>>

Play ==
  /\ viewer' = play(viewer)
  /\ UNCHANGED <<parser, lines, pc, i, result, reused, shared>>

Pause ==
  /\ viewer' = pause(viewer)
  /\ UNCHANGED <<parser, lines, pc, i, result, reused, shared>>

TogglePlay ==
  /\ viewer' = togglePlay(viewer)
  /\ UNCHANGED <<parser, lines, pc, i, result, reused, shared>>

Restart ==
  /\ viewer' = restart(viewer)
  /\ UNCHANGED <<parser, lines, pc, i, result, reused, shared>>

ShowAll ==
  /\ viewer' = showAll(viewer)
  /\ UNCHANGED <<parser, lines, pc, i, result, reused, shared>>

ScrubTo ==
  /\ \E fraction \in Fractions : viewer' = scrubTo(viewer, fraction)
  /\ UNCHANGED <<parser, lines, pc, i, result, reused, shared>>

SetSpeed ==
  /\ \E speed \in Speeds : viewer' = [viewer EXCEPT !.playbackSpeed = speed]
  /\ UNCHANGED <<parser, lines, pc, i, result, reused, shared>>

\* advancePlayback(dt) called by itself
AdvancePlayback ==
  /\ \E dt \in Steps : viewer' = advancePlayback(viewer, dt)
  /\ UNCHANGED <<parser, lines, pc, i, result, reused, shared>>

\* the callback of requestAnimationFrame runs, gap milliseconds after the
\* frame before
AnimateFrame(gap) ==
  /\ viewer' = [animateFrame(viewer, IF viewer.lastFrameTime = 0 THEN FrameStart
                                     ELSE viewer.lastFrameTime + gap)
                EXCEPT !.lastFrameTime = FrameStart]
  /\ UNCHANGED <<parser, lines, pc, i, result, reused, shared>>

\* the viewer under every call of its playback interface
SpecViewer ==
  Init /\ [][\/ LoadToolpath \/ Play \/ Pause \/ TogglePlay \/ Restart \/ ShowAll
             \/ ScrubTo \/ SetSpeed \/ AdvancePlayback
             \/ \E gap \in FrameGaps : AnimateFrame(gap)]_vars

\* the viewer left alone while it plays: the controls are used between two
\* playbacks, and animation frames keep arriving
SpecPlayback ==
  /\ Init
  /\ [][\/ \E gap \in FrameGaps : AnimateFrame(gap)
        \/ ~viewer.playing /\ LoadToolpath
        \/ ~viewer.playing /\ Play
        \/ ~viewer.playing /\ TogglePlay
        \/ ~viewer.playing /\ Restart
        \/ ~viewer.playing /\ ShowAll
        \/ ~viewer.playing /\ ScrubTo
        \/ ~viewer.playing /\ SetSpeed]_vars
  /\ WF_viewer(\E gap \in FrameGaps : AnimateFrame(gap))

\* a parser used again while the result of the parse before is held
SpecReuse ==
  Init /\ [][\/ \E n \in 1..MaxLines : ParseHeld(n)
             \/ ParseComments({LineCut, LineRapid, LineTool})
             \/ ParseLine
             \/ TrimParkMoves
             \/ Return]_vars

\* the lines that move the tool, end the program or carry a bad word
SpecMotion ==
  Init /\ [][NextOver({LineG91, LineCut, LineModal, LineRapid, LineArcCW, LineHome,
                       LineBadWord, LineEnd})]_vars

\* the lines with tool words and tool comments, two moves, and the lines of
\* a program that does not move
SpecTools ==
  Init /\ [][NextOver({LineTool, LineT2, LineToolDef, LineCut, LineRapid, LineG90,
                       LineM30})]_vars

\* parse() is synchronous: once called it goes on to its next statement, up
\* to its return (the position ParseComments, ParseLine, TrimParkMoves and
\* Return move to)
RunsToReturn ==
  /\ pc # "idle"
  /\ pc' = IF pc = "comments"
           THEN (IF i + 1 = parser.lineCount THEN "moves" ELSE "comments")
           ELSE IF pc = "moves"
           THEN (IF i + 1 = parser.lineCount THEN "trim" ELSE "moves")
           ELSE IF pc = "trim" THEN "return" ELSE "idle"
  /\ i' = IF pc = "comments" THEN (IF i + 1 = parser.lineCount THEN 0 ELSE i + 1)
          ELSE IF pc = "moves" THEN i + 1 ELSE i

\* malformed and unexpected lines, and two moves
SpecLenient ==
  /\ Init
  /\ [][NextOver({LineBlank, LineMarker, LineUnknown, LineNoTokens, LineBadWord,
                  LineCut, LineRapid})]_vars
  /\ WF_<<pc, i>>(RunsToReturn)

\* the arcs, the lines that set where and how they start, and the lines with
\* a word that does not parse
SpecArc ==
  Init /\ [][NextOver({LineArcCW, LineArcCCW, LineModal, LineG91, LineCut,
                       LineBadWord, LineBadArc})]_vars

\* every line but those with a word that does not parse
SpecWellFormed == Init /\ [][NextOver(Lines \ {LineBadWord, LineBadArc})]_vars

\* lines with tool, spindle, feed and repeated words, an arc among them, the
\* lines that set where and how the next move starts, and feeds that are no
\* feed
SpecWords ==
  Init /\ [][NextOver({LineT0, LineWords, LineCut, LineT2, LineModal, LineG91,
                       LineBadFeed})]_vars

\* lines with metadata comments, on lines the second pass skips and on lines
\* it reads, and the end of the program
SpecMeta ==
  Init /\ [][NextOver({LineTool, LineToolDef, LineMeta, LineHomeNote, LineT2, LineM30,
                       LineUnknown})]_vars

\* programs of rapids: absolute and relative ones, one ending the program,
\* one that changes tool, one whose X and Y do not parse, a cut, and a
\* homing line with tool and spindle words
SpecPark ==
  Init /\ [][NextOver({LineRapid, LineEnd, LineG91, LineT2, LineBadRapid, LineCut,
                       LineHomeTool})]_vars

\* ------------------------------------------------------------------ claims

\* the words a line offers to parseLine: none when the line is blank or a
\* program marker
wordsOn(line) ==
  IF cleanLine(line) = <<>> \/ cleanLine(line)[1] \in {"%", "O"} THEN <<>>
  ELSE tokenize(cleanLine(line))

hasWord(words, letters) == \E k \in 1..Len(words) : words[k][1] \in letters

\* the number of the last word of words with the given letter
lastValue(words, letter) ==
  parseFloat(Tail(words[CHOOSE k \in 1..Len(words) :
                          /\ words[k][1] = letter
                          /\ \A j \in (k + 1)..Len(words) : words[j][1] # letter]))

\* the numbers of the G words, in order
gValues(words) ==
  LET g == SelectSeq(words, LAMBDA w : w[1] = "G")
  IN [k \in 1..Len(g) |-> parseFloat(Tail(g[k]))]

HomingCodes == {Num(28), Num(30), Num(399)}

\* the place of the first G28, G30 or G399 among the G values g, 0 for none
firstHoming(g) ==
  IF \E k \in 1..Len(g) : g[k] \in HomingCodes
  THEN CHOOSE k \in 1..Len(g) :
         g[k] \in HomingCodes /\ \A j \in 1..(k - 1) : g[j] \notin HomingCodes
  ELSE 0

\* the positioning mode after the G90 and G91 among the first n of g
modeAfter(mode, g, n) ==
  IF \E k \in 1..n : g[k] \in {Num(90), Num(91)}
  THEN g[CHOOSE k \in 1..n :
           g[k] \in {Num(90), Num(91)}
           /\ \A j \in (k + 1)..n : g[j] \notin {Num(90), Num(91)}] = Num(90)
  ELSE mode

\* the motion kind named by the last of G0, G1, G2, G3 among g, "null" for none
kindNamed(g) ==
  IF \E k \in 1..Len(g) : g[k] \in {Num(0), Num(1), Num(2), Num(3)}
  THEN LET v == g[CHOOSE k \in 1..Len(g) :
                    g[k] \in {Num(0), Num(1), Num(2), Num(3)}
                    /\ \A j \in (k + 1)..Len(g) :
                         g[j] \notin {Num(0), Num(1), Num(2), Num(3)}]
       IN IF v = Num(0) THEN "rapid" ELSE IF v = Num(1) THEN "cut"
          ELSE IF v = Num(2) THEN "cw_arc" ELSE "ccw_arc"
  ELSE "null"

\* what a line skipped after the end of the program must leave alone
machineState(p) ==
  <<p.segments, p.x, p.y, p.z, p.absoluteMode, p.feedRate, p.lastMoveType,
    p.currentTool, p.currentSpindleSpeed, p.tools, p.toolChangeCount,
    p.totalCutDist, p.totalRapidDist, p.feedSegments>>

\* C1: once the program-ended flag is set, every later line of the same parse
\* is skipped whole (no segment; position, positioning mode, feed rate, modal
\* motion kind, current tool, spindle speed, tool table, tool-change counter
\* and distance counters unchanged), and the flag stays set until the next
\* parse() call resets it.
C1_EndedLinesSkipped ==
  [][parser.programEnded =>
       /\ pc # "idle" => parser'.programEnded
       /\ pc = "moves" => machineState(parser)' = machineState(parser)]_vars

\* a cutting line met after the end of the program and skipped
C1_Witness ==
  /\ parser.call.exit = "ended"
  /\ lines[parser.call.line] = LineCut
  /\ parser.programEnded

\* C2: every tokenized line with M30 or M02 among its tokens has set the
\* program-ended flag by the end of the line, whatever its other words
\* (G28, G30 and G399 included).
C2_EndTokenSetsFlag ==
  (parser.call.line > 0 /\ endsProgram(wordsOn(lines[parser.call.line])))
    => parser.programEnded

\* C3: parse() does not depend on earlier calls: what a reused instance
\* returns for a text (segments, bounds, stats, sheet, material, jobName,
\* tools, cycleTime) is what a freshly constructed instance returns for it.
C3_ParseIndependent ==
  (pc = "idle" /\ lines # <<>>) => result = parse(constructor, lines)

\* a reused instance has returned from a text that opens with coordinate
\* words alone, which take the default motion kind
C3_Witness ==
  /\ pc = "idle"
  /\ reused
  /\ lines # <<>>
  /\ lines[1] = LineModal
  /\ result.segments # <<>>
  /\ result.segments[1].type = "cut"

\* the line the second pass is about to hand to parseLine, and its words
nextLine == lines[i + 1]

nextWords == wordsOn(nextLine)

\* the segments parseLine adds in this step
added == SubSeq(parser'.segments, Len(parser.segments) + 1, Len(parser'.segments))

\* C4: a processed line with G28, G30 or G399 among its G words emits no
\* segment, leaves x, y, z and the modal motion kind unchanged, does not apply
\* its F word, and applies none of the G-codes after the skipping code (the
\* positioning mode is the one left by the G90/G91 before it).
C4_HomingLineFrame ==
  [][(/\ pc = "moves"
      /\ ~parser.programEnded
      /\ firstHoming(gValues(nextWords)) # 0)
     => /\ parser'.segments = parser.segments
        /\ parser'.x = parser.x /\ parser'.y = parser.y /\ parser'.z = parser.z
        /\ parser'.lastMoveType = parser.lastMoveType
        /\ parser'.feedRate = parser.feedRate
        /\ parser'.absoluteMode =
             modeAfter(parser.absoluteMode, gValues(nextWords),
                       firstHoming(gValues(nextWords)) - 1)]_vars

\* "G91 G28 G90 X5 F50 M30" was the first line: G91 taken, G90, X5, F50 not
C4_Witness ==
  /\ parser.call.exit = "skip"
  /\ parser.call.line = 1
  /\ lines[1] = LineHome
  /\ ~parser.absoluteMode
  /\ parser.x = 0
  /\ parser.feedRate = 0

\* C5: the motion kind is modal.  A processed line names its kind by the last
\* of its G0..G3; a line with an X, Y or Z word and none of them is executed
\* with the kind the most recent earlier line resolved, cut when none has
\* since the parse began; only a line that resolves a kind changes the
\* remembered one.
C5_ModalKind ==
  [][pc = "moves" =>
       IF parser'.call.exit = "end"
       THEN /\ parser'.call.type =
                 IF kindNamed(gValues(nextWords)) # "null"
                 THEN kindNamed(gValues(nextWords))
                 ELSE IF hasWord(nextWords, {"X", "Y", "Z"})
                      THEN (IF parser.lastMoveType = "null" THEN "cut"
                            ELSE parser.lastMoveType)
                      ELSE "null"
            /\ parser'.lastMoveType =
                 IF parser'.call.type = "null" THEN parser.lastMoveType
                 ELSE parser'.call.type
            /\ parser'.call.fn =
                 IF parser'.call.type \in {"rapid", "cut"} THEN "processLinearMove"
                 ELSE IF parser'.call.type \in {"cw_arc", "ccw_arc"} THEN "processArc"
                 ELSE "none"
            /\ \A k \in 1..Len(added) :
                 added[k].type = IF parser'.call.type = "rapid" THEN "rapid" ELSE "cut"
       ELSE /\ parser'.lastMoveType = parser.lastMoveType
            /\ added = <<>>]_vars

\* "X5 Y5 Z-1" ran as a rapid inherited from "G1 G0 X12", whose last code won
C5_Witness ==
  /\ parser.call.exit = "end"
  /\ parser.call.line > 1
  /\ lines[parser.call.line] = LineModal
  /\ lines[parser.call.line - 1] = LineRapid
  /\ parser.call.type = "rapid"
  /\ parser.segments[Len(parser.segments)].type = "rapid"

\* the coordinate of the machine on an axis
coordinate(p, axis) == IF axis = "X" THEN p.x ELSE IF axis = "Y" THEN p.y ELSE p.z

\* C6: a linear move resolves its target under the positioning mode in force:
\* in absolute mode an axis word replaces the coordinate, in incremental mode
\* it is added, an axis without a word keeps its value; after G91, two lines
\* "G1 X5" give two cut segments of length 5 and end at (10, 0, 0).
C6_LinearTarget ==
  /\ [][(pc = "moves" /\ parser'.call.fn = "processLinearMove") =>
          /\ parser'.absoluteMode =
               modeAfter(parser.absoluteMode, gValues(nextWords),
                         Len(gValues(nextWords)))
          /\ \A axis \in {"X", "Y", "Z"} :
               coordinate(parser', axis) =
                 IF ~hasWord(nextWords, {axis}) THEN coordinate(parser, axis)
                 ELSE IF parser'.absoluteMode THEN lastValue(nextWords, axis)
                 ELSE jsAdd(coordinate(parser, axis), lastValue(nextWords, axis))]_vars
  /\ []((pc = "trim" /\ lines = <<LineG91, LineCut, LineCut>>) =>
          /\ parser.segments =
               <<Segment("cut", Point(0, 0, 0), Point(Num(5), 0, 0), Null, 2),
                 Segment("cut", Point(Num(5), 0, 0), Point(Num(10), 0, 0), Null, 3)>>
          /\ parser.feedSegments[1].dist = Num(5)
          /\ parser.feedSegments[2].dist = Num(5)
          /\ <<parser.x, parser.y, parser.z>> = <<Num(10), 0, 0>>)

\* G91 and twice "g1 x5 f50" have been parsed
C6_Witness ==
  /\ pc = "trim"
  /\ lines = <<LineG91, LineCut, LineCut>>
  /\ ~parser.absoluteMode
  /\ parser.x = Num(10)

\* C7: the toolpath is a continuous chain: each segment starts where the
\* machine was before its move and ends where the machine is after it, so of
\* two consecutive segments the later starts at the end of the earlier, also
\* from the last sub-segment of an arc to the move that follows.
C7_ContinuousChain ==
  /\ \A k \in 1..(Len(parser.segments) - 1) :
       parser.segments[k + 1].from = parser.segments[k].to
  /\ (/\ pc \in {"moves", "trim"}
      /\ parser.call.fn # "none"
      /\ parser.segments # <<>>
      /\ parser.call.line = parser.segments[Len(parser.segments)].line)
       => parser.segments[Len(parser.segments)].to = Point(parser.x, parser.y, parser.z)

\* C8: zero-length moves never appear as segments: no segment of the output
\* has from equal to to in all three coordinates.
C8_NoZeroLengthSegment ==
  (pc = "idle" /\ lines # <<>>) =>
    \A k \in 1..Len(result.segments) :
      ~samePosition(result.segments[k].from, result.segments[k].to)

\* the coordinates on an axis of both endpoints of every segment
endpoints(segments, axis) ==
  {segments[k].from[axis] : k \in 1..Len(segments)}
    \cup {segments[k].to[axis] : k \in 1..Len(segments)}

\* b is the Math.min of the numbers S, +Infinity when there are none
isMinOf(b, S) ==
  IF S = {} THEN b = Infinity
  ELSE IF NaN \in S THEN b = NaN
  ELSE b \in S /\ \A v \in S : b <= v

\* b is the Math.max of the numbers S, -Infinity when there are none
isMaxOf(b, S) ==
  IF S = {} THEN b = -Infinity
  ELSE IF NaN \in S THEN b = NaN
  ELSE b \in S /\ \A v \in S : b >= v

\* C9: the returned bounds are exactly the component-wise minimum and maximum
\* (in the sense of Math.min and Math.max) over both endpoints of every
\* returned segment, the sentinels when no segment is returned; a removed
\* park move contributes nothing.
C9_BoundsExact ==
  (pc = "idle" /\ lines # <<>>) =>
    \A axis \in {"x", "y", "z"} :
      /\ isMinOf(result.bounds.min[axis], endpoints(result.segments, axis))
      /\ isMaxOf(result.bounds.max[axis], endpoints(result.segments, axis))

\* "g1 x5 f50" then a rapid to X12: the rapid was a park move and was removed,
\* the bounds stop at 5
C9_Witness ==
  /\ pc = "idle"
  /\ lines = <<LineCut, LineRapid>>
  /\ Len(result.segments) = 1
  /\ result.bounds.max.x = Num(5)
  /\ parser.x = Num(12)

\* C10: whenever at least one segment is returned, bounds.min is at most
\* bounds.max on every axis.
C10_BoundsOrdered ==
  (pc = "idle" /\ lines # <<>> /\ result.segments # <<>>) =>
    /\ jsLe(result.bounds.min.x, result.bounds.max.x)
    /\ jsLe(result.bounds.min.y, result.bounds.max.y)
    /\ jsLe(result.bounds.min.z, result.bounds.max.z)

\* the coordinates on an axis of both endpoints of every segment that is not
\* a rapid
cutCoordinates(segments, axis) ==
  {segments[k].from[axis] : k \in {j \in 1..Len(segments) : segments[j].type # "rapid"}}
    \cup {segments[k].to[axis] : k \in {j \in 1..Len(segments) : segments[j].type # "rapid"}}

\* the least and the greatest of the numbers S
lowOf(S) ==
  IF S = {} THEN Infinity ELSE IF NaN \in S THEN NaN
  ELSE CHOOSE b \in S : \A v \in S : b <= v

highOf(S) ==
  IF S = {} THEN -Infinity ELSE IF NaN \in S THEN NaN
  ELSE CHOOSE b \in S : \A v \in S : b >= v

\* max(10% of the cut rectangle's X extent, 5)
cutMargin(segments) ==
  MathMax(jsMul(jsSub(highOf(cutCoordinates(segments, "x")),
                      lowOf(cutCoordinates(segments, "x"))), Scale \div 10),
          Num(5))

\* pt lies outside the X/Y rectangle of the cut segments expanded by the margin
outsideCutEnvelope(pt, segments) ==
  \/ jsGt(pt.x, jsAdd(highOf(cutCoordinates(segments, "x")), cutMargin(segments)))
  \/ jsLt(pt.x, jsSub(lowOf(cutCoordinates(segments, "x")), cutMargin(segments)))
  \/ jsGt(pt.y, jsAdd(highOf(cutCoordinates(segments, "y")), cutMargin(segments)))
  \/ jsLt(pt.y, jsSub(lowOf(cutCoordinates(segments, "y")), cutMargin(segments)))

\* C11: park-move trimming removes from the tail only: the list after it is a
\* prefix of the list the motion pass produced, and every removed segment is
\* a rapid whose to lies outside the X/Y rectangle of the cut segments
\* expanded by max(10% of its X extent, 5); so no cut segment and no rapid
\* ending within the expanded rectangle is removed.
C11_TrimOnlyTail ==
  [][pc = "trim" =>
       /\ Len(parser'.segments) <= Len(parser.segments)
       /\ parser'.segments = SubSeq(parser.segments, 1, Len(parser'.segments))
       /\ \A k \in (Len(parser'.segments) + 1)..Len(parser.segments) :
            /\ parser.segments[k].type = "rapid"
            /\ outsideCutEnvelope(parser.segments[k].to, parser.segments)]_vars

\* "G91", "g1 x5 f50", then a rapid by X12 to (17,0,0): the rapid was removed,
\* the cut was kept
C11_Witness ==
  /\ pc = "return"
  /\ lines = <<LineG91, LineCut, LineRapid>>
  /\ parser.x = Num(17)
  /\ Len(parser.segments) = 1
  /\ parser.segments[1].type = "cut"

\* C12: park-move trimming is idempotent: trimParkMoves applied to its own
\* output removes nothing and leaves segments and bounds as they are.
C12_TrimIdempotent ==
  pc = "return" =>
    /\ trimParkMoves(parser).segments = parser.segments
    /\ trimParkMoves(parser).bounds = parser.bounds

\* "G91" and two rapids by X12: both rapids were removed by the one call
C12_Witness ==
  /\ pc = "return"
  /\ lines = <<LineG91, LineRapid, LineRapid>>
  /\ parser.x = Num(24)
  /\ parser.totalRapidDist = Num(24)
  /\ parser.segments = <<>>

\* C13: in every returned cycleTime, totalTime is rapidTime + cutTime +
\* toolChangeTime, exactly (the same number, NaN when a term is NaN).
C13_TotalIsSum ==
  (pc = "idle" /\ lines # <<>>) =>
    result.cycleTime.totalTime =
      jsAdd(jsAdd(result.cycleTime.rapidTime, result.cycleTime.cutTime),
            result.cycleTime.toolChangeTime)

\* T1, then T2 with a rapid to X3, then a cut to X5: the three terms are all
\* positive, the tool-change term being 8 s
C13_Witness ==
  /\ pc = "idle"
  /\ lines = <<LineTool, LineT2, LineCut>>
  /\ jsGt(result.cycleTime.rapidTime, 0)
  /\ jsGt(result.cycleTime.cutTime, 0)
  /\ result.cycleTime.toolChangeTime = Num(8)
  /\ jsGt(result.cycleTime.totalTime, Num(9))

\* the tool numbers the T words of the text select
toolsSelected ==
  UNION {{MathFloor(parseFloat(Tail(wordsOn(lines[k])[j]))) :
            j \in {n \in 1..Len(wordsOn(lines[k])) : wordsOn(lines[k])[n][1] = "T"}} :
         k \in 1..Len(lines)}

\* C14: cycleTime.toolChangeTime is zero for every program with no T word or
\* whose T words all select one and the same tool number.
C14_OneToolNoChangeTime ==
  (pc = "idle" /\ lines # <<>> /\ Cardinality(toolsSelected) <= 1) =>
    result.cycleTime.toolChangeTime = 0

\* no line of the text has a motion code (G0..G3) or a coordinate word
noMotion ==
  \A k \in 1..Len(lines) :
    /\ ~hasWord(wordsOn(lines[k]), {"X", "Y", "Z"})
    /\ kindNamed(gValues(wordsOn(lines[k]))) = "null"

\* C15: stats.moveCount is the length of the returned (post-trim) segment
\* list and stats.bounds is the returned bounds; a program with no motion,
\* such as "G90" then "M30", returns with zero segments, the sentinel bounds
\* and moveCount 0.
C15_StatsMatchResult ==
  (pc = "idle" /\ lines # <<>>) =>
    /\ result.stats.moveCount = Len(result.segments)
    /\ result.stats.bounds = result.bounds
    /\ noMotion =>
         /\ result.segments = <<>>
         /\ result.stats.moveCount = 0
         /\ \A axis \in {"x", "y", "z"} :
              /\ result.bounds.min[axis] = Infinity
              /\ result.bounds.max[axis] = -Infinity

\* parse("G90\nM30") has returned
C15_Witness ==
  /\ pc = "idle"
  /\ lines = <<LineG90, LineM30>>
  /\ parser.programEnded
  /\ result.stats.lineCount = 2
  /\ result.stats.moveCount = 0

\* the line the first pass reads in this step, and the matches of its
\* tool-definition comments in order
commentLine == lines'[Len(lines')]

toolDefinitions(line) ==
  LET found == SelectSeq(extractComments(line), LAMBDA c : toolMatch(c).ok)
  IN [k \in 1..Len(found) |-> toolMatch(found[k])]

\* the last tool definition for tool n among defs
lastDefinition(defs, n) ==
  defs[CHOOSE k \in 1..Len(defs) :
         /\ parseInt(defs[k].num) = n
         /\ \A j \in (k + 1)..Len(defs) : parseInt(defs[j].num) # n]

toolsDefined(defs) == {parseInt(defs[k].num) : k \in 1..Len(defs)}

\* the tool numbers the T words of the line parseLine is about to process
\* select: none when the line is skipped whole
toolsWorded ==
  IF parser.programEnded THEN {}
  ELSE {MathFloor(parseFloat(Tail(nextWords[k]))) :
          k \in {j \in 1..Len(nextWords) : nextWords[j][1] = "T"}}

\* the tool numbers in the table before or after the step, or in S
toolKeys(S) == DOMAIN parser.tools \cup DOMAIN parser'.tools \cup S

\* the claim of C16 for a line of the first pass with the tool definitions defs
definitionsUpsert(defs, defined) ==
  \A n \in toolKeys(defined) :
    IF n \in defined
    THEN /\ n \in DOMAIN parser'.tools
         /\ parser'.tools[n].number = n
         /\ parser'.tools[n].name = trim(lastDefinition(defs, n).name)
         /\ parser'.tools[n].diameter = parseFloat(lastDefinition(defs, n).td)
    ELSE /\ n \in DOMAIN parser.tools
         /\ n \in DOMAIN parser'.tools
         /\ parser'.tools[n] = parser.tools[n]

\* the claim of C16 for a line of the second pass whose T words select worded
wordsKeepRecords(worded) ==
  \A n \in toolKeys(worded) :
    /\ n \in DOMAIN parser'.tools
    /\ IF n \in DOMAIN parser.tools
       THEN /\ parser'.tools[n].number = parser.tools[n].number
            /\ parser'.tools[n].name = parser.tools[n].name
            /\ parser'.tools[n].diameter = parser.tools[n].diameter
       ELSE /\ n \in worded
            /\ parser'.tools[n].number = n
            /\ parser'.tools[n].name = <<"T", "o", "o", "l", " ">> \o NumToString(n)
            /\ parser'.tools[n].diameter = Undefined

\* C16: tool records are upserted by tool number. A tool-definition comment
\* for n sets tools[n].number, name and diameter, creating the record when
\* absent; a T word for n creates {number: n, name: 'Tool n'} only when there
\* is no record for n and otherwise leaves name and diameter as they are; no
\* other record appears, goes or changes its number, name or diameter; every
\* key n of tools holds a record whose number is n.
C16_ToolUpsert ==
  /\ [][/\ pc = "comments" =>
             Let([defs \in {toolDefinitions(commentLine)} |->
               definitionsUpsert(defs, toolsDefined(defs))])
        /\ pc = "moves" =>
             Let([worded \in {toolsWorded} |-> wordsKeepRecords(worded)])]_vars
  /\ [](\A n \in DOMAIN parser.tools : parser.tools[n].number = n)

\* tool 1 was defined as A then as B, T1 found the record and left it alone
\* (S100 stamped it), T2 found none and created 'Tool 2'
C16_Witness ==
  /\ pc = "trim"
  /\ lines = <<LineTool, LineToolDef, LineT2>>
  /\ DOMAIN parser.tools = {Num(1), Num(2)}
  /\ parser.tools[Num(1)].name = <<"B">>
  /\ parser.tools[Num(1)].diameter = Num(1) \div 2
  /\ parser.tools[Num(1)].spindleSpeed = Num(100)
  /\ parser.tools[Num(2)].name = <<"T", "o", "o", "l", " ", "2">>
  /\ parser.tools[Num(2)].diameter = Undefined

\* the G values parseLine acts on
ActingCodes == {Num(0), Num(1), Num(2), Num(3), Num(90), Num(91)} \cup HomingCodes

\* a word that is to be ignored: its number does not parse, it is a G-code
\* parseLine does nothing for, or an M-code other than M30 and M02
ignorable(w) ==
  \/ IsNaN(parseFloat(Tail(w)))
  \/ w[1] = "G" /\ parseFloat(Tail(w)) \notin ActingCodes
  \/ w[1] = "M" /\ ~endsProgram(<<w>>)

\* the words as a line of text, behind a line-number word
RECURSIVE lineOf(_)
lineOf(words) ==
  IF words = <<>> THEN <<"N", "0">>
  ELSE lineOf(SubSeq(words, 1, Len(words) - 1)) \o <<" ">> \o words[Len(words)]

\* a comment that is none of the metadata parseComments looks for
unknownComment(c) ==
  /\ ~toolMatch(c).ok
  /\ ~fieldMatch(c, SheetWidth).ok
  /\ ~fieldMatch(c, SheetLength).ok
  /\ ~fieldMatch(c, SheetThickness).ok
  /\ ~restMatch(c, MaterialName).ok
  /\ ~restMatch(c, JobName).ok
  /\ ~dateMatch(c).ok

ResultFields ==
  {"segments", "bounds", "stats", "sheet", "material", "jobName", "tools", "cycleTime"}

\* C17: parse() never throws and always terminates, returning a result with
\* segments, bounds, stats, sheet, material, jobName, tools and cycleTime;
\* unrecognized G/M codes and unparseable words are ignored (the line does
\* what it does without them), unknown metadata comments change no metadata,
\* and a line with no tokens changes nothing.
C17_LenientParse ==
  /\ (pc # "idle") ~> (pc = "idle")
  /\ []((pc = "idle" /\ lines # <<>>) => DOMAIN result = ResultFields)
  /\ [][/\ (pc = "comments"
            /\ \A k \in 1..Len(extractComments(commentLine)) :
                 unknownComment(extractComments(commentLine)[k]))
           => /\ parser'.sheet = parser.sheet
              /\ parser'.material = parser.material
              /\ parser'.jobName = parser.jobName
              /\ parser'.outputDate = parser.outputDate
              /\ parser'.tools = parser.tools
        /\ (pc = "moves" /\ nextWords = <<>>)
           => /\ machineState(parser)' = machineState(parser)
              /\ parser'.programEnded = parser.programEnded
        /\ (pc = "moves" /\ ~parser.programEnded)
           => /\ machineState(parser)' =
                   machineState(parseLine(parser,
                                          lineOf(SelectSeq(nextWords,
                                                           LAMBDA w : ~ignorable(w))),
                                          i + 1))
              /\ parser'.programEnded = endsProgram(nextWords)]_vars

\* no coordinate of the point is NaN
numeric(pt) == ~IsNaN(pt.x) /\ ~IsNaN(pt.y) /\ ~IsNaN(pt.z)

\* C18: a word whose numeric part does not parse (such as "X.") is not
\* applied: the machine position, the segment endpoints, the bounds and the
\* distance totals never hold a not-a-number.
C18_UnparseableNotApplied ==
  /\ numeric(Point(parser.x, parser.y, parser.z))
  /\ \A k \in 1..Len(parser.segments) :
       numeric(parser.segments[k].from) /\ numeric(parser.segments[k].to)
  /\ numeric(parser.bounds.min) /\ numeric(parser.bounds.max)
  /\ ~IsNaN(parser.totalCutDist)
  /\ ~IsNaN(parser.totalRapidDist)

\* the value of the line's I or J word, 0 without one
offsetWord(letter) ==
  IF hasWord(nextWords, {letter}) THEN lastValue(nextWords, letter) ELSE 0

\* the arc parseLine draws in this step: its start point, its end point, its
\* centre start + (I, J), its commanded radius |(I, J)| and its angles at the
\* start point and at the end point
arcDrawn ==
  Let([start \in {Point(parser.x, parser.y, parser.z)},
       end \in {Point(parser'.x, parser'.y, parser'.z)},
       offI \in {offsetWord("I")},
       offJ \in {offsetWord("J")} |->
  Let([centre \in {[x |-> jsAdd(start.x, offI), y |-> jsAdd(start.y, offJ)]} |->
    [type |-> parser'.call.type,
     start |-> start,
     end |-> end,
     centre |-> centre,
     radius |-> MathHypot3(offI, offJ, 0),
     startAngle |-> MathAtan2(jsSub(start.y, centre.y), jsSub(start.x, centre.x)),
     rawEnd |-> MathAtan2(jsSub(end.y, centre.y), jsSub(end.x, centre.x))]])])

FullTurn == 2 * HalfTurn

\* the claim of C19 for the arc a with the swept angle sweep (end angle after
\* correction minus start angle)
rightDirection(a, sweep, angles) ==
  /\ IsFinite(sweep)
  /\ Abs(sweep) <= FullTurn
  /\ IF a.type = "cw_arc"
     THEN /\ sweep < 0
          /\ a.rawEnd >= a.startAngle => sweep = a.rawEnd - FullTurn - a.startAngle
          /\ \A s \in 1..arcSegments : angles[s] <= angles[s - 1]
     ELSE /\ sweep > 0
          /\ a.rawEnd <= a.startAngle => sweep = a.rawEnd + FullTurn - a.startAngle
          /\ \A s \in 1..arcSegments : angles[s] >= angles[s - 1]

\* C19: the swept angle of every clockwise arc is strictly negative, a full
\* turn being taken off when the raw end angle is not strictly less than the
\* start angle, and its 33 vertex angles never increase; the swept angle of
\* every counterclockwise arc is strictly positive and its vertex angles
\* never decrease; the sweep is never more than one full turn.
C19_ArcDirection ==
  [][(pc = "moves" /\ parser'.call.fn = "processArc") =>
       Let([a \in {arcDrawn} |->
       Let([sweep \in {jsSub(endAngleOf(a.type, a.startAngle, a.rawEnd),
                             a.startAngle)} |->
         rightDirection(a, sweep,
                        [s \in 0..arcSegments |-> angleAt(a.startAngle, sweep, s)])])])]_vars

\* what two lengths may differ by and count as equal: 5 thousandths
Tolerance == Scale \div 200

\* a is a number within the tolerance of b
near(a, b) == IsFinite(a) /\ IsFinite(b) /\ Abs(a - b) <= Tolerance

\* the claim of C20 for the full circle a drawn as the segments drawn
closes(a, drawn) ==
  /\ Len(drawn) = arcSegments
  /\ drawn[1].from = a.start
  /\ near(MathHypot3(jsSub(drawn[arcSegments].to.x, a.start.x),
                     jsSub(drawn[arcSegments].to.y, a.start.y),
                     jsSub(drawn[arcSegments].to.z, a.start.z)), 0)
  /\ \A s \in 1..arcSegments :
       near(MathHypot3(jsSub(drawn[s].to.x, a.centre.x),
                       jsSub(drawn[s].to.y, a.centre.y), 0),
            a.radius)

\* C20: an arc whose end point is its start point is a full circle that
\* closes: its last vertex coincides with its first (the start point) within
\* tolerance, and each of its 32 vertices lies at the commanded radius
\* |(I, J)| from the centre start + (I, J) within tolerance.
C20_ArcClosure ==
  [][(/\ pc = "moves"
      /\ parser'.call.fn = "processArc"
      /\ samePosition(Point(parser.x, parser.y, parser.z),
                      Point(parser'.x, parser'.y, parser'.z)))
     => Let([a \in {arcDrawn}, drawn \in {added} |-> closes(a, drawn)])]_vars

\* the claim of C21 for the arc a drawn as the segments drawn by the line of
\* the given number while the given tool is current
chainedArc(a, drawn, tool, lineNumber) ==
  /\ Len(drawn) = 32
  /\ \A s \in 1..Len(drawn) :
       /\ drawn[s].type = "cut"
       /\ drawn[s].line = lineNumber
       /\ drawn[s].tool = tool
       /\ drawn[s].from = IF s = 1 THEN a.start ELSE drawn[s - 1].to
       /\ drawn[s].to =
            arcVertex([start |-> a.start, centerX |-> a.centre.x,
                       centerY |-> a.centre.y, radius |-> a.radius,
                       startAngle |-> a.startAngle,
                       angleSpan |-> jsSub(endAngleOf(a.type, a.startAngle, a.rawEnd),
                                           a.startAngle),
                       zSpan |-> jsSub(a.end.z, a.start.z)], s)

\* C21: every arc command (G2 or G3, named on the line or inherited) appends
\* exactly 32 segments, all of kind cut, all with the number of the arc's line
\* and the current tool, the first starting at the position before the arc
\* and each later one at the end of the one before it; their vertices are
\* those of the arc about start + (I, J), in absolute and in incremental mode
\* alike, a missing I or J counting as 0.
C21_ArcSegments ==
  [][(pc = "moves" /\ parser'.call.fn = "processArc") =>
       Let([a \in {arcDrawn}, drawn \in {added}, tool \in {parser'.currentTool} |->
         chainedArc(a, drawn, tool, i + 1)])]_vars

\* in incremental mode the arc of "N7 G2 X2 X4 I1 I2 F10 F20 S9 T3" was drawn
\* with tool 3, and "X5 Y5 Z-1" was drawn as an arc too, inherited and with
\* no I and no J, from (4, 0, 0) to (9, 5, -1)
C21_Witness ==
  /\ pc = "trim"
  /\ lines = <<LineG91, LineWords, LineModal>>
  /\ ~parser.absoluteMode
  /\ parser.call.fn = "processArc"
  /\ parser.call.line = 3
  /\ Len(parser.segments) = 64
  /\ parser.segments[33].from = Point(Num(4), 0, 0)
  /\ parser.segments[64].tool = Num(3)
  /\ <<parser.x, parser.y, parser.z>> = <<Num(9), Num(5), -Num(1)>>

\* C22: after every arc command the machine is exactly at the commanded end
\* point, resolved under the positioning mode in force (absolute: an X, Y or
\* Z word replaces the coordinate; incremental: it is added to the start; an
\* axis without a word keeps its value), not at the last vertex of the
\* polyline.
C22_ArcEndExact ==
  [][(pc = "moves" /\ parser'.call.fn = "processArc") =>
       \A axis \in {"X", "Y", "Z"} :
         coordinate(parser', axis) =
           IF ~hasWord(nextWords, {axis}) THEN coordinate(parser, axis)
           ELSE IF parser'.absoluteMode THEN lastValue(nextWords, axis)
           ELSE jsAdd(coordinate(parser, axis), lastValue(nextWords, axis))]_vars

\* "X5 Y5 Z-1" ran in absolute mode as an inherited arc with no centre
\* offset: its polyline ends at (4, 0, -1), the machine is at (5, 5, -1)
C22_Witness ==
  /\ pc = "trim"
  /\ lines = <<LineWords, LineModal>>
  /\ parser.call.fn = "processArc"
  /\ parser.call.line = 2
  /\ parser.segments[Len(parser.segments)].to = Point(Num(4), 0, -Num(1))
  /\ <<parser.x, parser.y, parser.z>> = <<Num(5), Num(5), -Num(1)>>

\* a segment at which trimming stops: a cut, or a rapid that ends within the
\* cut rectangle of segments expanded by the margin
stopsTrim(seg, segments) ==
  seg.type # "rapid" \/ ~outsideCutEnvelope(seg.to, segments)

\* the claim of C23 for the lists before and after trimParkMoves
trimmedToStop(before, after) ==
  /\ Len(after) <= Len(before)
  /\ after = SubSeq(before, 1, Len(after))
  /\ after = <<>> \/ stopsTrim(after[Len(after)], after)
  /\ \A k \in (Len(after) + 1)..Len(before) : ~stopsTrim(before[k], before)

\* C23: trimming is exhaustive at the tail: after trimParkMoves the list is
\* empty or its last segment is a cut or a rapid ending within the cut
\* rectangle expanded by the margin; trimming stops at the first such segment
\* from the tail (everything behind it goes, it and everything before it
\* stays, a rapid outside the envelope included).
C23_TrimExhaustive ==
  [][pc = "trim" =>
       Let([before \in {parser.segments}, after \in {parser'.segments} |->
         trimmedToStop(before, after)])]_vars

\* a cut to X5, a rapid to X12 (outside the envelope, which ends at 10) and
\* a rapid back to X0: trimming stopped at the last one, all three are kept
C23_Witness ==
  /\ pc = "return"
  /\ lines = <<LineCut, LineRapid, LineEnd>>
  /\ Len(parser.segments) = 3
  /\ parser.segments[2].type = "rapid"
  /\ parser.segments[2].to.x = Num(12)
  /\ parser.segments[3].type = "rapid"
  /\ parser.segments[3].to.x = 0

\* how many of the words have the given letter
countWords(words, letter) ==
  Cardinality({k \in 1..Len(words) : words[k][1] = letter})

\* C24: the tool-change counter goes up by exactly one for every T word of a
\* processed line, also when the word names the tool that is current already,
\* and by nothing else; cycleTime.toolChangeTime is max(0, counter - 1) times
\* 8 seconds, so the first tool load is not counted.
C24_ToolChangeCounter ==
  /\ [][/\ pc = "moves" =>
             parser'.toolChangeCount =
               parser.toolChangeCount
                 + (IF parser.programEnded THEN 0 ELSE countWords(nextWords, "T"))
        /\ pc \in {"comments", "trim", "return"} =>
             parser'.toolChangeCount = parser.toolChangeCount]_vars
  /\ []((pc = "idle" /\ lines # <<>>) =>
          result.cycleTime.toolChangeTime =
            Num(8) * (IF parser.toolChangeCount > 1 THEN parser.toolChangeCount - 1
                      ELSE 0))

\* "T1 S100 ..." twice: the second T1 names the current tool and is counted
\* too, one change of 8 s is charged
C24_Witness ==
  /\ pc = "idle"
  /\ lines = <<LineTool, LineTool>>
  /\ parser.currentTool = Num(1)
  /\ parser.toolChangeCount = 2
  /\ result.cycleTime.toolChangeTime = Num(8)

\* the tool that is current when the k-th of the words is processed, current
\* being the tool before the line: the number of the last T word before k
toolBefore(words, k, current) ==
  IF \E j \in 1..(k - 1) : words[j][1] = "T"
  THEN MathFloor(parseFloat(Tail(words[CHOOSE j \in 1..(k - 1) :
                                        /\ words[j][1] = "T"
                                        /\ \A h \in (j + 1)..(k - 1) :
                                             words[h][1] # "T"])))
  ELSE current

\* the places of the S words processed while tool n is the current tool
stampsOf(words, current, n) ==
  {k \in 1..Len(words) : words[k][1] = "S" /\ toolBefore(words, k, current) = n}

\* the claim of C25 for a line of the second pass with the given words, met
\* while the given tool is current (Null: no T word processed so far)
speedsStamped(words, current) ==
  \A n \in DOMAIN parser'.tools :
    parser'.tools[n].spindleSpeed =
      IF stampsOf(words, current, n) # {}
      THEN parseFloat(Tail(words[CHOOSE k \in stampsOf(words, current, n) :
                                   \A j \in stampsOf(words, current, n) : j <= k]))
      ELSE IF n \in DOMAIN parser.tools THEN parser.tools[n].spindleSpeed
      ELSE Undefined

\* C25: an S word processed while a tool is active (a T word has been
\* processed earlier in this parse, whatever its number, 0 included) sets the
\* spindleSpeed of that tool's record to its value; so each tool's
\* spindleSpeed is the last S value seen while it was the current tool, and
\* no S word changes the record of a tool that was not current.
C25_SpindleStamped ==
  [][(pc = "moves" /\ ~parser.programEnded) =>
       Let([words \in {nextWords}, current \in {parser.currentTool} |->
         speedsStamped(words, current)])]_vars

\* C26: every segment carries the tool that is current when its move is
\* issued: the number of the last T word of its own line when the line has
\* one, wherever it stands on the line, else that of the last T word of an
\* earlier processed line, null when no T word has been processed.
C26_SegmentTool ==
  /\ [](pc = "comments" => parser.currentTool = Null)
  /\ [][pc = "moves" =>
          Let([words \in {IF parser.programEnded THEN <<>> ELSE nextWords},
               current \in {parser.currentTool},
               drawn \in {added} |->
            /\ parser'.currentTool = toolBefore(words, Len(words) + 1, current)
            /\ \A k \in 1..Len(drawn) :
                 drawn[k].tool = toolBefore(words, Len(words) + 1, current)])]_vars

\* a cut before any T word, the arc of "N7 G2 X2 X4 I1 I2 F10 F20 S9 T3",
\* whose T word stands last, and a cut on a later line without a T word
C26_Witness ==
  /\ pc = "trim"
  /\ lines = <<LineCut, LineWords, LineCut>>
  /\ Len(parser.segments) = 34
  /\ parser.segments[1].tool = Null
  /\ parser.segments[2].tool = Num(3)
  /\ parser.segments[2].line = 2
  /\ parser.segments[34].tool = Num(3)
  /\ parser.segments[34].line = 3

\* the metadata target of a comment: the first of the patterns, in the order
\* parseComments tries them, that the comment fits
metaTarget(c) ==
  IF toolMatch(c).ok THEN "tools"
  ELSE IF fieldMatch(c, SheetWidth).ok THEN "width"
  ELSE IF fieldMatch(c, SheetLength).ok THEN "length"
  ELSE IF fieldMatch(c, SheetThickness).ok THEN "thickness"
  ELSE IF restMatch(c, MaterialName).ok THEN "material"
  ELSE IF restMatch(c, JobName).ok THEN "jobName"
  ELSE IF dateMatch(c).ok THEN "outputDate"
  ELSE "none"

\* the targets of the comments of a line, in order
metaTargets(line) ==
  Let([cs \in {extractComments(line)} |-> [k \in 1..Len(cs) |-> metaTarget(cs[k])]])

targeted(tg, f) == \E k \in 1..Len(tg) : tg[k] = f

\* the last of the comments cs with target f
lastFor(cs, tg, f) ==
  cs[CHOOSE k \in 1..Len(tg) : tg[k] = f /\ \A j \in (k + 1)..Len(tg) : tg[j] # f]

\* the claim of C27 for a line of the first pass with the comments cs, whose
\* targets are tg
firstMatchWins(cs, tg) ==
  /\ parser'.sheet.width =
       IF targeted(tg, "width")
       THEN parseFloat(fieldMatch(lastFor(cs, tg, "width"), SheetWidth).text)
       ELSE parser.sheet.width
  /\ parser'.sheet.length =
       IF targeted(tg, "length")
       THEN parseFloat(fieldMatch(lastFor(cs, tg, "length"), SheetLength).text)
       ELSE parser.sheet.length
  /\ parser'.sheet.thickness =
       IF targeted(tg, "thickness")
       THEN parseFloat(fieldMatch(lastFor(cs, tg, "thickness"), SheetThickness).text)
       ELSE parser.sheet.thickness
  /\ parser'.material =
       IF targeted(tg, "material")
       THEN trim(restMatch(lastFor(cs, tg, "material"), MaterialName).text)
       ELSE parser.material
  /\ parser'.jobName =
       IF targeted(tg, "jobName")
       THEN trim(restMatch(lastFor(cs, tg, "jobName"), JobName).text)
       ELSE parser.jobName
  /\ parser'.outputDate =
       IF targeted(tg, "outputDate")
       THEN trim(dateMatch(lastFor(cs, tg, "outputDate")).text)
       ELSE parser.outputDate
  /\ IF targeted(tg, "tools")
     THEN Let([tm \in {toolMatch(lastFor(cs, tg, "tools"))} |->
            /\ parseInt(tm.num) \in DOMAIN parser'.tools
            /\ parser'.tools[parseInt(tm.num)].name = trim(tm.name)])
     ELSE parser'.tools = parser.tools

\* some comment of the text has the target f
everTargeted(f) == \E k \in 1..Len(lines) : targeted(metaTargets(lines[k]), f)

\* C27: metadata matching is first-match-wins per comment: a comment updates
\* one target at most, the first in the order tool definition, sheet width,
\* sheet length, sheet thickness, material name, job name, output date whose
\* pattern it fits; a comment that fits none changes no metadata; a sheet
\* field that no comment set stays null, not zero.
C27_FirstMatchWins ==
  /\ [][pc = "comments" =>
          Let([cs \in {extractComments(commentLine)},
               tg \in {metaTargets(commentLine)} |-> firstMatchWins(cs, tg)])]_vars
  /\ []((pc = "idle" /\ lines # <<>>) =>
          \A f \in {"width", "length", "thickness"} :
            ~everTargeted(f) => result.sheet[f] = Null)

\* "(Sheet Width Sheet Length: 5)" set the width alone, "(JOB_NAME: Material
\* name: x)" the material alone, and the tool comment named "Sheet
\* Thickness: 3" defined tool 2 and set no thickness
C27_Witness ==
  /\ pc = "idle"
  /\ lines = <<LineMeta, LineHomeNote>>
  /\ result.sheet = [width |-> Num(5), length |-> Null, thickness |-> Null]
  /\ result.material = <<"x">>
  /\ result.jobName = NullString
  /\ parser.outputDate = <<"1">>
  /\ DOMAIN result.tools = {Num(2)}
  /\ result.tools[Num(2)].diameter = Num(1)

\* the comments of the first n lines of the text, in order
RECURSIVE commentsOf(_, _)
commentsOf(text, n) ==
  IF n = 0 THEN <<>> ELSE commentsOf(text, n - 1) \o extractComments(text[n])

\* the claim of C28 for the parser p once the first pass is over, cs being
\* the comments of the whole text and tg their targets
metadataComplete(p, cs, tg) ==
  /\ p.sheet.width =
       IF targeted(tg, "width")
       THEN parseFloat(fieldMatch(lastFor(cs, tg, "width"), SheetWidth).text)
       ELSE Null
  /\ p.sheet.length =
       IF targeted(tg, "length")
       THEN parseFloat(fieldMatch(lastFor(cs, tg, "length"), SheetLength).text)
       ELSE Null
  /\ p.sheet.thickness =
       IF targeted(tg, "thickness")
       THEN parseFloat(fieldMatch(lastFor(cs, tg, "thickness"), SheetThickness).text)
       ELSE Null
  /\ p.material =
       IF targeted(tg, "material")
       THEN trim(restMatch(lastFor(cs, tg, "material"), MaterialName).text)
       ELSE NullString
  /\ p.jobName =
       IF targeted(tg, "jobName")
       THEN trim(restMatch(lastFor(cs, tg, "jobName"), JobName).text)
       ELSE NullString
  /\ \A k \in 1..Len(cs) :
       tg[k] = "tools" =>
         Let([n \in {parseInt(toolMatch(cs[k]).num)} |->
           /\ n \in DOMAIN p.tools
           /\ \E j \in k..Len(cs) :
                /\ tg[j] = "tools"
                /\ parseInt(toolMatch(cs[j]).num) = n
                /\ p.tools[n].name = trim(toolMatch(cs[j]).name)])

\* C28: the metadata pass runs over the whole input before the first line is
\* interpreted for motion: nothing has moved while it runs, and from the first
\* step of the motion pass on sheet, material and jobName are what the
\* comments of all lines make them (lines after M30 or M02, lines starting
\* with % or O and lines skipped for G28, G30 or G399 included), and every
\* tool named by a comment anywhere in the text has that name.
C28_MetadataFirst ==
  /\ pc = "comments" =>
       /\ parser.segments = <<>>
       /\ <<parser.x, parser.y, parser.z>> = <<0, 0, 0>>
       /\ parser.currentTool = Null
       /\ ~parser.programEnded
  /\ pc \in {"moves", "trim", "return"} =>
       Let([cs \in {commentsOf(lines, Len(lines))} |->
       Let([tg \in {[k \in 1..Len(cs) |-> metaTarget(cs[k])]} |->
         metadataComplete(parser, cs, tg)])])

\* T2 on the first line found tool 2 named by a comment of the third line,
\* a homing line behind M30
C28_Witness ==
  /\ pc = "trim"
  /\ lines = <<LineT2, LineM30, LineHomeNote>>
  /\ parser.programEnded
  /\ parser.currentTool = Num(2)
  /\ parser.segments # <<>>
  /\ parser.tools[Num(2)].name =
       <<"S", "h", "e", "e", "t", " ", "T", "h", "i", "c", "k", "n", "e", "s", "s",
         ":", " ", "3">>
  /\ parser.outputDate = <<"1">>

\* the feed a line leaves stored: that of its last F word when the line is
\* processed to its end, else the feed stored before
feedKept ==
  parser'.feedRate =
    IF parser'.call.exit = "end" /\ hasWord(nextWords, {"F"})
    THEN lastValue(nextWords, "F")
    ELSE parser.feedRate

\* the line made a cut: an arc, or a linear cut move that was not dropped
cutMade ==
  \/ parser'.call.fn = "processArc"
  \/ parser'.call.fn = "processLinearMove" /\ parser'.call.type = "cut" /\ added # <<>>

\* the step adds one sample with the given feed when the line made a cut, and
\* none when it did not
sampleAdded(before, after, made, feed) ==
  /\ Len(after) = Len(before) + (IF made THEN 1 ELSE 0)
  /\ SubSeq(after, 1, Len(before)) = before
  /\ made => after[Len(after)].feed = feed

\* the sum over the samples of distance / feeds[k] x 60
timeOfSamples(samples, feeds) ==
  IF samples = <<>> THEN 0
  ELSE jsAdd(0, SumRange([k \in 1..Len(samples) |->
                            jsMul(jsDiv(samples[k].dist, feeds[k]), Num(60))],
                         1, Len(samples)))

\* C29: the stored feed rate persists across lines until a later F word
\* changes it; every cut sample (one per linear cut move, one per arc) is
\* recorded with the feed stored when its move is handled, or with 100 when
\* that feed is zero or unset; cutTime is the sum over the samples of
\* distance / feed x 60, so two cuts made under different stored feeds are
\* each timed with their own.
C29_FeedPerSample ==
  /\ [][pc = "moves" =>
          /\ feedKept
          /\ Let([before \in {parser.feedSegments}, after \in {parser'.feedSegments},
                  made \in {cutMade} |->
               sampleAdded(before, after, made,
                           IF parser.feedRate = 0 THEN Num(100) ELSE parser.feedRate)])]_vars
  /\ []((pc = "idle" /\ lines # <<>>) =>
          result.cycleTime.cutTime =
            timeOfSamples(parser.feedSegments,
                          [k \in 1..Len(parser.feedSegments) |->
                             parser.feedSegments[k].feed]))

\* the k-th of the words counts: it is no N word and, when its letter is one
\* of X, Y, Z, I, J, F, no later word has that letter
lastOfLetter(words, k) ==
  /\ words[k][1] # "N"
  /\ words[k][1] \in {"X", "Y", "Z", "I", "J", "F"} =>
       \A j \in (k + 1)..Len(words) : words[j][1] # words[k][1]

\* the words that count, in their order
countingWords(words) ==
  Let([keep \in {{k \in 1..Len(words) : lastOfLetter(words, k)}} |->
    [n \in 1..Cardinality(keep) |->
       words[CHOOSE k \in keep : Cardinality({j \in keep : j <= k}) = n]]])

\* the words as a line of text, a space between two words
RECURSIVE joinWords(_)
joinWords(words) ==
  IF words = <<>> THEN <<>>
  ELSE IF Len(words) = 1 THEN words[1]
  ELSE joinWords(SubSeq(words, 1, Len(words) - 1)) \o <<" ">> \o words[Len(words)]

\* C30: the words of a line are applied from left to right and the last
\* occurrence of a letter wins: of several X, Y, Z, I, J or F words only the
\* last value is used for the line's move or feed update, and N words affect
\* neither position nor mode nor any parameter (the line does what the line
\* of its counting words does).
C30_LastWordWins ==
  [][(pc = "moves" /\ ~parser.programEnded) =>
       Let([words \in {nextWords}, p \in {parser}, q \in {parser'} |->
         /\ machineState(q) =
              machineState(parseLine(p, joinWords(countingWords(words)), i + 1))
         /\ \A axis \in {"X", "Y", "Z"} :
              (q.call.fn # "none" /\ q.absoluteMode /\ hasWord(words, {axis}))
                => coordinate(q, axis) = lastValue(words, axis)
         /\ (q.call.exit = "end" /\ hasWord(words, {"F"}))
              => q.feedRate = lastValue(words, "F")])]_vars

\* "N7 G2 X2 X4 I1 I2 F10 F20 S9 T3" ended at X4 with F20 stored, its arc of
\* radius 2 (I2) passing (2, 2, 0)
C30_Witness ==
  /\ pc = "trim"
  /\ lines = <<LineWords>>
  /\ parser.x = Num(4)
  /\ parser.feedRate = Num(20)
  /\ parser.segments[16].to = Point(Num(2), Num(2), 0)

\* the feed a cut is recorded with when stored is the feed rate in store: 100
\* when no feed is stored (zero, or no number)
feedInForce(stored) == IF stored = 0 \/ IsNaN(stored) THEN Num(100) ELSE stored

\* C31: an F word takes effect only after the move on its own line: a cut
\* made by a line is recorded with the feed rate stored from earlier lines
\* (100 when there is none) also when the line carries an F word, the F word
\* is stored once the move is made, and so it first shows in the samples of
\* the cuts on following lines.
C31_FeedAfterMove ==
  [][pc = "moves" =>
       Let([before \in {parser.feedSegments}, after \in {parser'.feedSegments},
            made \in {cutMade}, words \in {nextWords} |->
         /\ sampleAdded(before, after, made, feedInForce(parser.feedRate))
         /\ (parser'.call.exit = "end" /\ hasWord(words, {"F"}))
              => parser'.feedRate = lastValue(words, "F")
         /\ (parser'.call.exit # "end" \/ ~hasWord(words, {"F"}))
              => parser'.feedRate = parser.feedRate])]_vars

\* "g1 x5 f50" was recorded with 100, the arc of "N7 G2 X2 X4 I1 I2 F10 F20
\* S9 T3" with that line's 50, and "X5 Y5 Z-1" with the arc line's 20
C31_Witness ==
  /\ pc = "trim"
  /\ lines = <<LineCut, LineWords, LineModal>>
  /\ Len(parser.feedSegments) = 3
  /\ parser.feedSegments[1].feed = Num(100)
  /\ parser.feedSegments[2].feed = Num(50)
  /\ parser.feedSegments[3].feed = Num(20)
  /\ parser.feedRate = Num(20)

\* every coordinate of the point is a finite number
finitePoint(pt) == IsFinite(pt.x) /\ IsFinite(pt.y) /\ IsFinite(pt.z)

\* no segment of the list is a cut
noCut(segments) == \A k \in 1..Len(segments) : segments[k].type = "rapid"

\* after is what is left of before once every trailing rapid that ends on
\* finite coordinates is gone: nothing is left when all of them end so
rapidsGone(before, after) ==
  /\ Len(after) <= Len(before)
  /\ after = SubSeq(before, 1, Len(after))
  /\ after # <<>> => ~finitePoint(after[Len(after)].to)
  /\ (\A k \in 1..Len(before) : finitePoint(before[k].to)) => after = <<>>

\* C32: when the motion pass produced no cut segment, trimParkMoves removes
\* every trailing rapid that ends on finite coordinates; a program whose
\* moves are all such rapids returns zero segments and the sentinel bounds
\* (Infinity for every min, -Infinity for every max).
C32_AllRapidsTrimmed ==
  /\ [][(pc = "trim" /\ noCut(parser.segments)) =>
          Let([before \in {parser.segments}, after \in {parser'.segments} |->
            /\ rapidsGone(before, after)
            /\ after = <<>> => parser'.bounds = EmptyBounds])]_vars
  /\ [][(pc = "return" /\ parser.segments = <<>>) =>
          /\ result'.segments = <<>>
          /\ result'.bounds = EmptyBounds
          /\ result'.stats.bounds = EmptyBounds
          /\ result'.stats.moveCount = 0]_vars

\* "G91", "G1 G0 X12 (park) ; G1" twice: two rapids over 24 were made and
\* none is returned
C32_Witness ==
  /\ pc = "idle"
  /\ lines = <<LineG91, LineRapid, LineRapid>>
  /\ parser.totalRapidDist = Num(24)
  /\ parser.totalCutDist = 0
  /\ result.segments = <<>>
  /\ result.bounds = EmptyBounds

\* the length of a segment, as the move handlers measure it
lengthOf(seg) ==
  MathHypot3(jsSub(seg.to.x, seg.from.x), jsSub(seg.to.y, seg.from.y),
             jsSub(seg.to.z, seg.from.z))

\* the rapid total after a line: the total before it plus the length of the
\* rapid the line issued, if it issued one
rapidIssued(before, after, segs) ==
  after = IF segs # <<>> /\ segs[1].type = "rapid"
          THEN jsAdd(before, lengthOf(segs[1]))
          ELSE before

\* C33: park-move trimming changes only the segment list and the bounds:
\* totalRapidDist, totalCutDist, the feed samples and the tool-change count
\* (and every other field) are as before it; the rapid total grows by the
\* length of every rapid issued while parsing, so cycleTime.totalRapidDist
\* and rapidTime (the total / 400 x 60) cover the rapids that trimming
\* removed from the returned list as well.
C33_TrimKeepsTotals ==
  /\ [][pc = "trim" =>
          \A f \in DOMAIN ResetFields \ {"segments", "bounds"} :
             parser'[f] = parser[f]]_vars
  /\ [][pc = "moves" =>
          Let([before \in {parser.totalRapidDist}, after \in {parser'.totalRapidDist},
               segs \in {added} |-> rapidIssued(before, after, segs)])]_vars
  /\ []((pc = "idle" /\ lines # <<>>) =>
          /\ result.cycleTime.totalRapidDist = parser.totalRapidDist
          /\ result.cycleTime.totalCutDist = parser.totalCutDist
          /\ result.cycleTime.rapidTime =
               jsMul(jsDiv(parser.totalRapidDist, Num(400)), Num(60)))

\* "g1 x5 f50" then "G1 G0 X12 (park) ; G1": the rapid over 7 is trimmed from
\* the list and still counted, 7 / 400 x 60 s (a second and a little, to the
\* three decimals kept)
C33_Witness ==
  /\ pc = "idle"
  /\ lines = <<LineCut, LineRapid>>
  /\ Len(result.segments) = 1
  /\ result.segments[1].type = "cut"
  /\ result.cycleTime.totalRapidDist = Num(7)
  /\ jsGt(result.cycleTime.rapidTime, Num(1))
  /\ jsLt(result.cycleTime.rapidTime, Num(1) + Scale \div 10)
  /\ Len(parser.feedSegments) = 1

\* the record the T branch makes for a tool that has none
freshTool(n) ==
  [number |-> n, name |-> <<"T", "o", "o", "l", " ">> \o NumToString(n),
   diameter |-> Undefined, spindleSpeed |-> Undefined]

\* the tools the T words of a line name
toolsNamed(words) ==
  {MathFloor(parseFloat(Tail(words[k]))) :
     k \in {j \in 1..Len(words) : words[j][1] = "T"}}

\* C34: T and S words are applied while the words of a line are told apart,
\* before any G-code is looked at: on a line that is skipped for its G28, G30
\* or G399 a T word still sets the current tool, makes the tool's record when
\* it has none (and no other) and counts as a tool change, and an S word
\* still sets the spindle speed.
C34_SkippedLineWords ==
  [][(/\ pc = "moves"
      /\ ~parser.programEnded
      /\ firstHoming(gValues(nextWords)) # 0)
     => Let([words \in {nextWords}, p \in {parser}, q \in {parser'} |->
          /\ q.call.exit = "skip"
          /\ q.currentTool = toolBefore(words, Len(words) + 1, p.currentTool)
          /\ DOMAIN q.tools = DOMAIN p.tools \cup toolsNamed(words)
          /\ \A n \in toolsNamed(words) \ DOMAIN p.tools :
               [q.tools[n] EXCEPT !.spindleSpeed = Undefined] = freshTool(n)
          /\ q.toolChangeCount = p.toolChangeCount + countWords(words, "T")
          /\ hasWord(words, {"S"}) => q.currentSpindleSpeed = lastValue(words, "S")
          /\ ~hasWord(words, {"S"}) => q.currentSpindleSpeed = p.currentSpindleSpeed])]_vars

\* "N5 T2 M6 G0 X3" then "G28 T4 S700 X5": the second line was skipped, X
\* still 3, and tool 4 is current, recorded and counted, the speed 700
C34_Witness ==
  /\ pc = "trim"
  /\ lines = <<LineT2, LineHomeTool>>
  /\ parser.call.exit = "skip"
  /\ parser.x = Num(3)
  /\ parser.currentTool = Num(4)
  /\ DOMAIN parser.tools = {Num(2), Num(4)}
  /\ parser.tools[Num(4)].name = <<"T", "o", "o", "l", " ", "4">>
  /\ parser.toolChangeCount = 2
  /\ parser.currentSpindleSpeed = Num(700)

\* the line numbers of the list do not fall along it, and each is one of
\* 1..lineCount
linesInOrder(segments, lineCount) ==
  /\ \A k \in 1..Len(segments) : segments[k].line \in 1..lineCount
  /\ \A k \in 1..(Len(segments) - 1) : segments[k].line <= segments[k + 1].line

\* C35: in every list parse() produces, the source line numbers of the
\* segments do not decrease along the list and each lies between 1 and
\* stats.lineCount; once a line has set the program-ended flag no segment
\* has a greater line number than that line: none has when the flag is set,
\* and none is added after.
C35_SegmentLines ==
  /\ [](linesInOrder(parser.segments, parser.lineCount))
  /\ []((pc = "idle" /\ lines # <<>>) =>
          /\ result.stats.lineCount = Len(lines)
          /\ linesInOrder(result.segments, result.stats.lineCount))
  /\ [][(pc = "moves" /\ ~parser.programEnded /\ parser'.programEnded) =>
          \A k \in 1..Len(parser'.segments) : parser'.segments[k].line <= i + 1]_vars
  /\ [][(pc \in {"moves", "trim", "return"} /\ parser.programEnded) =>
          /\ parser'.programEnded
          /\ Len(parser'.segments) <= Len(parser.segments)
          /\ parser'.segments = SubSeq(parser.segments, 1, Len(parser'.segments))]_vars
  /\ [][pc = "return" => result'.segments = parser.segments]_vars

\* "g1 x5 f50", "G90 G0 X0 Y0 M02", "g1 x5 f50": segments of lines 1 and 2,
\* none of line 3
C35_Witness ==
  /\ pc = "idle"
  /\ lines = <<LineCut, LineEnd, LineCut>>
  /\ parser.programEnded
  /\ result.stats.lineCount = 3
  /\ Len(result.segments) = 2
  /\ result.segments[1].line = 1
  /\ result.segments[2].line = 2

\* what the holder of the earlier result finds in its field c: the parser's
\* own field where the two are one array or object, else what was returned
heldView(c) == IF c \in shared THEN parser[c] ELSE result[c]

\* C36: a result returned by parse() is not altered by a later parse() on the
\* same parser: its segments array, bounds object, tools table and sheet
\* object keep the contents they were returned with all through the later
\* parse, none of them being a container the later parse writes to (reset()
\* gives the parser new ones).
C36_ResultKept ==
  /\ [](result # NoResult =>
          \A c \in {"segments", "bounds", "tools", "sheet"} : heldView(c) = result[c])
  /\ []((result # NoResult /\ pc \in {"comments", "moves", "trim"}) => shared = {})
  /\ [][pc # "return" => result' = result]_vars

\* a second text, "G1 G0 X12 (park) ; G1", is parsed to its end while the
\* result of "g1 x5 f50" is held: one cut there, one rapid in the parser
C36_Witness ==
  /\ pc = "trim"
  /\ reused
  /\ lines = <<LineRapid>>
  /\ Len(parser.segments) = 1
  /\ parser.segments[1].type = "rapid"
  /\ Len(result.segments) = 1
  /\ result.segments[1].type = "cut"
  /\ result.bounds.max.x = Num(5)
  /\ parser.bounds.max.x = Num(12)

\* how many of the first n segments of the viewer are rapids
rapidsAmong(n) ==
  Cardinality({k \in 1..n : viewer.segments[k].type = "rapid"})

\* C37: after any sequence of loadToolpath, play, pause, togglePlay, restart,
\* showAll, scrubTo(f) with 0 <= f <= 1 and advancePlayback(dt >= 0) (by
\* itself or from an animation frame), currentSegmentIndex lies in
\* 0..segments.length, rapidDrawCount and cutDrawCount are the numbers of
\* rapid and of other segments among the first currentSegmentIndex segments
\* (their sum is currentSegmentIndex), and no write into the pre-allocated
\* position and colour buffers went past the counts they were sized for.
C37_PlaybackCounts ==
  /\ viewer.currentSegmentIndex \in 0..Len(viewer.segments)
  /\ viewer.rapidDrawCount = rapidsAmong(viewer.currentSegmentIndex)
  /\ viewer.cutDrawCount = viewer.currentSegmentIndex - rapidsAmong(viewer.currentSegmentIndex)
  /\ ~viewer.pastEnd
  /\ viewer.preallocated =>
       /\ viewer.rapidPositions = 6 * rapidsAmong(Len(viewer.segments))
       /\ viewer.cutPositions = 6 * (Len(viewer.segments) - rapidsAmong(Len(viewer.segments)))
       /\ viewer.cutColors = viewer.cutPositions

\* a toolpath of a cut, a rapid and a cut plays at four times the speed
\* and stands at the start of its third segment: one rapid and one cut are
\* drawn
C37_Witness ==
  /\ Len(viewer.segments) = 3
  /\ viewer.segments[2].type = "rapid"
  /\ viewer.segments[3].type = "cut"
  /\ viewer.playing
  /\ viewer.playbackSpeed = Num(4)
  /\ viewer.currentSegmentIndex = 2
  /\ viewer.segmentProgress = 0
  /\ viewer.rapidDrawCount = 1
  /\ viewer.cutDrawCount = 1
  /\ viewer.rapidPositions = 6
  /\ viewer.cutPositions = 12

\* C38: playback ends.  When play() was called on a toolpath that is not
\* empty and animation frames keep arriving, each later than the one before,
\* the speed above zero and nothing else called meanwhile, then in the end
\* currentSegmentIndex is segments.length, playing is false and
\* onPlayStateChange(false) was delivered; playing stops nowhere but at the
\* end, and play() called at the end of the toolpath restarts from segment 0.
C38_PlaybackEnds ==
  /\ (viewer.playing /\ viewer.segments # <<>>)
       ~> (/\ viewer.currentSegmentIndex = Len(viewer.segments)
           /\ ~viewer.playing
           /\ viewer.playState = "false")
  /\ [][(viewer.playing /\ ~viewer'.playing) =>
          /\ viewer'.currentSegmentIndex = Len(viewer'.segments)
          /\ viewer'.segments = viewer.segments
          /\ viewer'.playState = "false"]_vars
  /\ [][(/\ ~viewer.playing /\ viewer'.playing
         /\ viewer.currentSegmentIndex >= Len(viewer.segments))
        => /\ viewer'.currentSegmentIndex = 0
           /\ viewer'.segmentProgress = 0
           /\ viewer'.rapidDrawCount = 0
           /\ viewer'.cutDrawCount = 0
           /\ viewer'.playState = "true"]_vars

\* a toolpath of three segments plays, frames have come, and it stands
\* half way through its last segment: on the way to its end
C38_Witness ==
  /\ Len(viewer.segments) = 3
  /\ viewer.playing
  /\ viewer.playState = "true"
  /\ viewer.lastFrameTime = FrameStart
  /\ viewer.currentSegmentIndex = 2
  /\ viewer.segmentProgress = Scale \div 2
  /\ viewer.rapidDrawCount + viewer.cutDrawCount = 2

====
